---------------------------- MODULE Spec2Model ----------------------------
(***************************************************************************)
(* A model of local-ai-notetaker: the transcript interleaver               *)
(* (src/src/transcription.py), the file grouping and recombination         *)
(* (src/src/lain/convert_audio_files.py) and the speaker transcription     *)
(* adapter (src/src/transcription.py).                                     *)
(*                                                                         *)
(* A Python dict is a sequence of [k, v] records in insertion order, a     *)
(* Python list a sequence.  A point in time is a record [kind, t]: kind     *)
(* "dt" for a datetime (t: whole seconds since an epoch), kind "num" for a *)
(* plain number of seconds.  A variable that holds None in the code holds  *)
(* the empty value of its type here, and the pc beside it tells which.     *)
(***************************************************************************)
EXTENDS Integers, Sequences, FiniteSets, TLC

(***************************************************************************)
(* Python dict helpers.                                                    *)
(***************************************************************************)
DictKeys(d) == {d[i].k : i \in 1..Len(d)}

DictGet(d, key) == d[CHOOSE i \in 1..Len(d) : d[i].k = key].v

\* d[key] = val: an existing key keeps its place, a new key goes last.
DictSet(d, key, val) ==
    IF key \in DictKeys(d)
    THEN [i \in 1..Len(d) |-> IF d[i].k = key THEN [k |-> key, v |-> val] ELSE d[i]]
    ELSE Append(d, [k |-> key, v |-> val])

(***************************************************************************)
(* File names.  A file name is a sequence of one-character strings; every  *)
(* file of a meeting lies in the one "Audio Record" directory, so a path   *)
(* is modelled by its base name.                                           *)
(***************************************************************************)
\* The characters of the model's file names, in code-point order.
CharOrder ==
    << ".", "0", "1", "2", "3", "4", "5", "6", "7", "8", "9",
       "A", "D", "I", "O", "U", "V", "W",
       "a", "b", "d", "i", "m", "n", "o", "u", "v", "w", "y" >>

Ord(c) == CHOOSE i \in 1..Len(CharOrder) : CharOrder[i] = c

Digits == {"0", "1", "2", "3", "4", "5", "6", "7", "8", "9"}

DigitVal(c) == Ord(c) - Ord("0")

\* Case folding of the (?i) flag.
Lower(c) ==
    CASE c = "A" -> "a" [] c = "D" -> "d" [] c = "I" -> "i" [] c = "O" -> "o"
      [] c = "U" -> "u" [] c = "V" -> "v" [] c = "W" -> "w" [] OTHER -> c

LowerSeq(s) == [i \in 1..Len(s) |-> Lower(s[i])]

\* str < str: the first differing character decides, a proper prefix is smaller.
StrLess(a, b) ==
    \/ \E i \in 1..Len(a) :
        /\ i <= Len(b)
        /\ \A j \in 1..(i - 1) : a[j] = b[j]
        /\ Ord(a[i]) < Ord(b[i])
    \/ /\ Len(a) < Len(b)
       /\ \A j \in 1..Len(a) : a[j] = b[j]

\* list.sort() of a list of strings (line 341).
RECURSIVE SortFiles(_)
SortFiles(l) ==
    IF l = <<>> THEN <<>>
    ELSE LET rest == SortFiles(SubSeq(l, 1, Len(l) - 1))
             x == l[Len(l)]
             n == Cardinality({i \in 1..Len(rest) : ~StrLess(x, rest[i])})
         IN SubSeq(rest, 1, n) \o <<x>> \o SubSeq(rest, n + 1, Len(rest))

\* The digits of the pattern's <magic> group.
MagicLen == 9

AudioPrefix == <<"a", "u", "d", "i", "o">>
WavSuffix == <<".", "w", "a", "v">>

\* A pattern that forgets to count the magic digits: any two digits after the
\* name will do.
MatchesLoose(s, n) ==
    /\ n >= 1
    /\ Len(s) >= Len(AudioPrefix) + n + 2
    /\ LowerSeq(SubSeq(s, 1, Len(AudioPrefix))) = AudioPrefix
    /\ \A i \in (Len(AudioPrefix) + n + 1)..(Len(AudioPrefix) + n + 2) : s[i] \in Digits

\* Whether the pattern of line 335 matches base name s from its first
\* character with a <name> group of n characters: "audio", n characters, the
\* recording digit, the duplicate digit, nine digits and ".wav", letters
\* compared without case.  re.match anchors the start only: s may go on.
MatchesWithName(s, n) ==
    /\ n >= 1
    /\ Len(s) >= Len(AudioPrefix) + n + 2 + MagicLen + Len(WavSuffix)
    /\ LowerSeq(SubSeq(s, 1, Len(AudioPrefix))) = AudioPrefix
    /\ \A i \in (Len(AudioPrefix) + n + 1)..(Len(AudioPrefix) + n + 2 + MagicLen) :
            s[i] \in Digits
    /\ LowerSeq(SubSeq(s, Len(AudioPrefix) + n + 2 + MagicLen + 1,
                       Len(AudioPrefix) + n + 2 + MagicLen + Len(WavSuffix)))
            = WavSuffix

\* pattern.match(base_name): [ok |-> FALSE] for None, else the groups of the
\* match with the shortest name (.+? is lazy).
PatternMatch(s) ==
    LET ns == {n \in 1..Len(s) : MatchesWithName(s, n)}
    IN IF ns = {} THEN [ok |-> FALSE]
       ELSE LET n == CHOOSE n \in ns : \A m \in ns : n <= m
            IN [ok |-> TRUE,
                name |-> SubSeq(s, Len(AudioPrefix) + 1, Len(AudioPrefix) + n),
                duplicate |-> DigitVal(s[Len(AudioPrefix) + n + 2])]

(***************************************************************************)
(* File grouping and recombination.                                        *)
(***************************************************************************)
VARIABLES
    c_pc,           \* "idle", "loop" (lines 381-394), "returned", "raised"
    wav_list,       \* the run's argument, as line 341 has sorted it in place
    resorted,       \* whether line 341 changed the order the caller passed
    wav_dict,       \* get_recordings_dict's result: name -> {duplicate -> file}
    c_idx,          \* the position of the loop of line 381 in wav_dict
    wav_dict_new,   \* the mapping the loop builds
    c_result,       \* what the run returned (c_pc = "returned"), else <<>>
    c_err,          \* the file the ValueError of line 356 names, else <<>>
    combine_folder, \* whether the Combined directory exists
    dir_at_call,    \* whether it existed when the run was called
    combined,       \* name -> the content of audio<name>_combined.wav, or NoFile
    joins,          \* the file lists the run handed to ffmpeg concat, in order
    copies,         \* the files the run handed to cp, in order
    rerun,          \* whether the run before this one returned, on the same files
    first_result    \* what that run returned when rerun, else <<>>

cvars == <<c_pc, wav_list, resorted, wav_dict, c_idx, wav_dict_new, c_result, c_err,
           combine_folder, dir_at_call, combined, joins, copies, rerun, first_result>>

\* The transcript interleaver.
VARIABLES
    i_pc,           \* "call" before interleave_transcripts runs, "done" after
    transcriptions, \* its argument: dict speaker -> list of segments
    interleaved     \* its return value, <<>> before the call

ivars == <<i_pc, transcriptions, interleaved>>

\* The speaker transcription adapter.
VARIABLES
    t_pc,               \* "idle", "loop" (lines 108-140), "returned", "raised"
    wav_files,          \* the argument: dict speaker -> path
    meeting_start_arg,  \* the argument meeting_start_time, NoTime for None
    meeting_start_time, \* the local of that name after lines 83-86
    t_idx,              \* the position of the loop of line 108 in wav_files
    t_transcriptions,   \* the local dict "transcriptions" the loop fills
    t_result,           \* what the call returned (t_pc = "returned"), else <<>>
    silent,             \* the speakers whose file _has_speech found without speech
    asr_calls,          \* the files handed to asr_model.transcribe, in order
    raw,                \* dict speaker -> the raw segments the model returned
    t_models,           \* the models the call holds: "vad" and "asr" once loaded
    t_cache_cleared     \* whether torch.cuda.empty_cache() ran in the call

tvars == <<t_pc, wav_files, meeting_start_arg, meeting_start_time, t_idx,
           t_transcriptions, t_result, silent, asr_calls, raw, t_models,
           t_cache_cleared>>

\* The transcript serializer.
VARIABLES
    s_pc,           \* "idle", "open", "header", "lines", "returned", "raised"
    s_segments,     \* the argument segments
    s_start,        \* the argument start_time, NoTime for None
    s_target,       \* the file at output_file: whether it exists, and its lines
    s_before,       \* what the file held when the call was made
    s_idx           \* the position of the loop of line 213 in segments

svars == <<s_pc, s_segments, s_start, s_target, s_before, s_idx>>

\* The pipeline: the folders on disk, which outlive a run, and the run.
VARIABLES
    p_folder,       \* the meeting folder: its .m4a files and whether it has "Audio Record"
    p_master_wavs,  \* the master .wav files in the meeting folder
    p_wavs,         \* the .wav files in "Audio Record"
    p_combined,     \* the speakers with a file in "Audio Record/Combined"
    p_transcript,   \* the output folder: transcript file name -> file
    p_notes,        \* the output folder: the notes files in it
    p_complete,     \* the transcript names last written by a serialization that returned
    p_pc,           \* "idle", "masters", "record", "speakers", "combine", "names",
                    \* "transcribe", "interleave", "save", "notes", "write", "done", "raised"
    p_start_arg,    \* args.start_time, NoTime for None: the same in every run on the folder
    p_overwrite,    \* args.overwrite
    p_start,        \* meeting_start_time
    p_wav_files,    \* wav_files: dict speaker -> path
    p_idx,          \* the position of transcribe_audio_multi's loop in wav_files
    p_raw,          \* dict speaker -> the raw segments the model returned in this run
    p_local,        \* the dict transcribe_audio_multi is building, gone when it ends
    p_transcriptions, \* transcriptions: what transcribe_audio_multi returned
    p_interleaved,  \* interleaved_transcript
    p_transcodes,   \* the files this run handed to ffmpeg for conversion
    p_joins,        \* the speakers this run ran the joiner for
    p_asr,          \* the speakers this run ran the recognition model for
    p_llm,          \* whether this run called the summarizer, and the transcript it read
    p_wrote,        \* the kinds of file this run has written or emptied
    p_err,          \* the stage whose error ended the run, "" while there is none
    p_prev          \* whether the run before this one came past step 5

pvars == <<p_folder, p_master_wavs, p_wavs, p_combined, p_transcript, p_notes, p_complete,
           p_pc, p_start_arg, p_overwrite, p_start, p_wav_files, p_idx, p_raw,
           p_local, p_transcriptions, p_interleaved, p_transcodes, p_joins, p_asr, p_llm,
           p_wrote, p_err, p_prev>>

\* The notes renderer.
VARIABLES
    r_pc,           \* "idle", "call" before notes_json_to_markdown runs, "returned", "raised"
    r_data,         \* its argument, the structured document
    r_result        \* the lines of the text it returned, <<>> before and when it raised

rvars == <<r_pc, r_data, r_result>>

\* The notes adapter.
VARIABLES
    n_pc,           \* "idle", "generate", "parse", "returned", "raised", "written"
    n_lens,         \* the lengths of the transcript, the user prompt template and
                    \* the system prompt
    n_approx,       \* approx_tokens
    n_err,          \* "", "too long", "generate", "no json", "not a document"
    n_reported,     \* the number the "too long" error reports, 0 without one
    n_sent,         \* whether generate was called, the transcript length inside
                    \* the prompt it was given, and num_ctx
    n_response,     \* response["response"], a sequence of tokens
    n_thinking,     \* response.thinking, <<>> for None or ""
    n_source,       \* which text the document was parsed from: "", "response", "thinking"
    n_result,       \* the lines of the Markdown returned
    n_wrote         \* the files written: "thought" by the adapter, "notes" by the pipeline

nvars == <<n_pc, n_lens, n_approx, n_err, n_reported, n_sent, n_response, n_thinking,
           n_source, n_result, n_wrote>>

\* Argument validation and the choice of the meeting start.
VARIABLES
    u_pc,           \* "idle", "call" before validate_args runs, "validated", "exit",
                    \* "raised", "anchored" after lines 69-78 of the pipeline
    u_arg,          \* --start-time: whether it was given, and its text
    u_folder,       \* --meeting-folder: whether it was given, and its base name
    u_start,        \* args.start_time after validate_args, NoTime for None
    u_anchor,       \* meeting_start_time of the pipeline
    u_consulted     \* whether the folder name was read for a date

uvars == <<u_pc, u_arg, u_folder, u_start, u_anchor, u_consulted>>

\* The components after the first three, for their UNCHANGED.
lvars == <<svars, pvars, rvars, nvars, uvars>>

vars == <<cvars, ivars, tvars, lvars>>

\* The longest listing of a run.
MaxFiles == 3

Magic == <<"1", "2", "3", "4", "5", "6", "7", "8", "9">>

FileName(name, recording, duplicate) ==
    AudioPrefix \o name \o <<recording, duplicate>> \o Magic \o WavSuffix

Bob == <<"b", "o", "b">>
Amy == <<"a", "m", "y">>
Dan == <<"d", "a", "n">>

\* The .wav files a meeting folder may hold.  bob has parts whose name order is
\* not their part order, and two files with the same part number; amy has one
\* file; one name lacks a digit.
FilePool ==
    { FileName(Bob, "1", "2"), FileName(Bob, "2", "1"), FileName(Bob, "1", "1"),
      FileName(Amy, "1", "1"),
      AudioPrefix \o Dan \o <<"1">> \o Magic \o WavSuffix }

Listings ==
    {l \in UNION {[1..n -> FilePool] : n \in 0..MaxFiles} :
        \A i, j \in 1..Len(l) : i # j => l[i] # l[j]}

\* The names a combined file may be made for.
SpeakerNames == {Bob, Amy, Dan}

\* get_recordings_dict's loop (lines 343-358) over the sorted list, from
\* position i with the dict d built so far: [ok, dict] when every name matched,
\* [ok, file] with the file line 356 names otherwise.
RECURSIVE RecordingsFrom(_, _, _)
RecordingsFrom(files, i, d) ==
    IF i > Len(files) THEN [ok |-> TRUE, dict |-> d]
    ELSE LET m == PatternMatch(files[i])
         IN IF ~m.ok THEN [ok |-> FALSE, file |-> files[i]]
            ELSE RecordingsFrom(files, i + 1,
                    IF m.name \notin DictKeys(d)
                    THEN DictSet(d, m.name, <<[k |-> m.duplicate, v |-> files[i]]>>)
                    ELSE DictSet(d, m.name,
                            DictSet(DictGet(d, m.name), m.duplicate, files[i])))

\* get_recordings_dict on a list already sorted by line 341.
get_recordings_dict(sorted) == RecordingsFrom(sorted, 1, <<>>)

\* sorted(files.keys()): the keys ascending.
RECURSIVE SortedKeys(_)
SortedKeys(K) ==
    IF K = {} THEN <<>>
    ELSE LET m == CHOOSE m \in K : \A x \in K : m <= x
         IN <<m>> \o SortedKeys(K \ {m})

\* The parts in the order the dict holds them, which is the order of their names.
files_list_unsorted(files) == [i \in 1..Len(files) |-> files[i].v]

\* Lines 389-391: the parts by ascending duplicate number.
files_list(files) ==
    LET ks == SortedKeys(DictKeys(files))
    IN [i \in 1..Len(ks) |-> DictGet(files, ks[i])]

\* A path: its directory and its base name.
OriginalPath(file) == [dir |-> "Audio Record", base |-> file]

CombinedSuffix == <<"_", "c", "o", "m", "b", "i", "n", "e", "d">> \o WavSuffix

\* The path of line 383 for a speaker.
combined_file_path(name) ==
    [dir |-> "Audio Record/Combined", base |-> AudioPrefix \o name \o CombinedSuffix]

\* What a file written by a tool holds: the tool, its input, and whether the
\* tool ran to its end.  NoFile: the path does not exist.
Content(tool, src, complete) == [tool |-> tool, src |-> src, complete |-> complete]

NoFile == Content("none", <<>>, FALSE)

Elems(l) == {l[i] : i \in 1..Len(l)}

\* A test of line 387 that never finds the file.
AlwaysCombine(name) == TRUE

\* Line 387: not os.path.exists(combined_file_path).
NotExists(name) == combined[name] = NoFile

\* The test of line 368 with its comparison turned round.
FastPathInverted(d) == \A i \in 1..Len(d) : Len(d[i].v) > 1

\* Lines 368-372: every name has one entry; the mapping of each name to it.
FastPath(d) == \A i \in 1..Len(d) : Len(d[i].v) = 1

FastMapping(d) == [i \in 1..Len(d) |-> [k |-> d[i].k, v |-> OriginalPath(d[i].v[1].v)]]

\* Lines 341-360 for every listing of the model: the list as sorted in place
\* and what get_recordings_dict makes of it.
Grouped ==
    [l \in Listings |->
        [sorted |-> SortFiles(l), dict |-> get_recordings_dict(SortFiles(l))]] @@ <<>>

InitCombine ==
    /\ c_pc = "idle"
    /\ wav_list = <<>>
    /\ resorted = FALSE
    /\ wav_dict = <<>>
    /\ c_idx = 0
    /\ wav_dict_new = <<>>
    /\ c_result = <<>>
    /\ c_err = <<>>
    /\ combine_folder = FALSE
    /\ dir_at_call = FALSE
    /\ combined = [n \in SpeakerNames |-> NoFile]
    /\ joins = <<>>
    /\ copies = <<>>
    /\ rerun = FALSE
    /\ first_result = <<>>

\* combine_audio_files(wav_list) up to its loop (lines 363-379): the list is
\* sorted and parsed, and the run raises, returns the original files or
\* makes the Combined directory and enters the loop.
CombineCall ==
    /\ c_pc \in {"idle", "returned", "raised"}
    /\ \E l \in Listings :
        LET sorted == Grouped[l].sorted
            r == Grouped[l].dict
        IN /\ wav_list' = sorted
           /\ resorted' = (sorted # l)
           /\ IF ~r.ok
              THEN /\ c_pc' = "raised"
                   /\ c_err' = r.file
                   /\ c_result' = <<>>
                   /\ wav_dict' = <<>>
                   /\ c_idx' = 0
                   /\ UNCHANGED combine_folder
              ELSE /\ c_err' = <<>>
                   /\ wav_dict' = r.dict
                   /\ IF FastPath(r.dict)
                      THEN /\ c_pc' = "returned"
                           /\ c_result' = FastMapping(r.dict)
                           /\ c_idx' = 0
                           /\ UNCHANGED combine_folder
                      ELSE /\ c_pc' = "loop"
                           /\ c_result' = <<>>
                           /\ c_idx' = 1
                           /\ combine_folder' = TRUE
    /\ wav_dict_new' = <<>>
    /\ dir_at_call' = combine_folder
    /\ joins' = <<>>
    /\ copies' = <<>>
    /\ rerun' = (c_pc = "returned" /\ Elems(wav_list') = Elems(wav_list))
    /\ first_result' = IF rerun' THEN c_result ELSE <<>>
    /\ UNCHANGED combined
    /\ UNCHANGED <<ivars, tvars, lvars>>

\* One turn of the loop of lines 381-394 for a speaker whose combined file is
\* there already: the path is recorded and nothing is run.
CombineSkip ==
    /\ c_pc = "loop"
    /\ c_idx <= Len(wav_dict)
    /\ ~NotExists(wav_dict[c_idx].k)
    /\ wav_dict_new' = DictSet(wav_dict_new, wav_dict[c_idx].k,
                               combined_file_path(wav_dict[c_idx].k))
    /\ c_idx' = c_idx + 1
    /\ UNCHANGED <<c_pc, wav_list, resorted, wav_dict, c_result, c_err, combine_folder,
                   dir_at_call, combined, joins, copies, rerun, first_result>>
    /\ UNCHANGED <<ivars, tvars, lvars>>

\* One turn of the loop for a speaker without a combined file: the path is
\* recorded and concat_wavs_copy (lines 399-437) runs on the parts.  A single
\* part is copied by cp first; the code then goes on to ffmpeg concat in every
\* case.  Either tool may fail (check=True raises), leaving the output path as
\* it was or holding what the tool had written so far.
CombineConcat ==
    /\ c_pc = "loop"
    /\ c_idx <= Len(wav_dict)
    /\ NotExists(wav_dict[c_idx].k)
    /\ LET name == wav_dict[c_idx].k
           wavs == files_list(wav_dict[c_idx].v)
           one == Len(wavs) = 1
           copied == IF one THEN Content("cp", wavs, TRUE) ELSE combined[name]
       IN /\ wav_dict_new' = DictSet(wav_dict_new, name, combined_file_path(name))
          /\ \/ \* cp fails
                /\ one
                /\ copies' = Append(copies, wavs[1])
                /\ UNCHANGED joins
                /\ \E left \in {combined[name], Content("cp", wavs, FALSE)} :
                        combined' = [combined EXCEPT ![name] = left]
                /\ c_pc' = "raised"
                /\ UNCHANGED c_idx
             \/ \* ffmpeg fails
                /\ copies' = IF one THEN Append(copies, wavs[1]) ELSE copies
                /\ joins' = Append(joins, wavs)
                /\ \E left \in {copied, Content("ffmpeg", wavs, FALSE)} :
                        combined' = [combined EXCEPT ![name] = left]
                /\ c_pc' = "raised"
                /\ UNCHANGED c_idx
             \/ \* ffmpeg succeeds
                /\ copies' = IF one THEN Append(copies, wavs[1]) ELSE copies
                /\ joins' = Append(joins, wavs)
                /\ combined' = [combined EXCEPT ![name] = Content("ffmpeg", wavs, TRUE)]
                /\ c_idx' = c_idx + 1
                /\ UNCHANGED c_pc
    /\ UNCHANGED <<wav_list, resorted, wav_dict, c_result, c_err, combine_folder,
                   dir_at_call, rerun, first_result>>
    /\ UNCHANGED <<ivars, tvars, lvars>>

\* Line 396: the loop is over and the mapping is returned.
CombineReturn ==
    /\ c_pc = "loop"
    /\ c_idx > Len(wav_dict)
    /\ c_pc' = "returned"
    /\ c_result' = wav_dict_new
    /\ UNCHANGED <<wav_list, resorted, wav_dict, c_idx, wav_dict_new, c_err,
                   combine_folder, dir_at_call, combined, joins, copies, rerun, first_result>>
    /\ UNCHANGED <<ivars, tvars, lvars>>

NextCombine == CombineCall \/ CombineSkip \/ CombineConcat \/ CombineReturn

(***************************************************************************)
(* Transcript interleaver.                                                 *)
(***************************************************************************)
\* Bounds of the interleaver's inputs.
MaxSegs == 2

SpeakerLabels == {"A", "B"}

Num(n) == [kind |-> "num", t |-> n]
Dt(n) == [kind |-> "dt", t |-> n]

\* The segments a speaker's list is drawn from: two share a start, two overlap.
SegPool ==
    { [start |-> Num(2), end |-> Num(6), text |-> "x"],
      [start |-> Num(2), end |-> Num(3), text |-> "y"],
      [start |-> Num(5), end |-> Num(8), text |-> "x"] }

SegLists == UNION {[1..n -> SegPool] : n \in 0..MaxSegs}

\* Every dict over SpeakerLabels, in every insertion order.
TranscriptionDicts ==
    {<<>>}
    \cup {<<[k |-> s, v |-> l]>> : s \in SpeakerLabels, l \in SegLists}
    \cup {<<[k |-> s1, v |-> l1], [k |-> s2, v |-> l2]>> :
            <<s1, s2>> \in {p \in SpeakerLabels \X SpeakerLabels : p[1] # p[2]},
            <<l1, l2>> \in SegLists \X SegLists}

\* The inner loop of lines 166-174: one speaker's segments, relabelled.
SpeakerSegments(speaker, segments) ==
    [i \in 1..Len(segments) |->
        [start |-> segments[i].start, end |-> segments[i].end,
         text |-> segments[i].text, speaker |-> speaker]]

\* The outer loop of lines 164-174: all_segments before the sort.
RECURSIVE all_segments(_)
all_segments(d) ==
    IF d = <<>> THEN <<>>
    ELSE all_segments(SubSeq(d, 1, Len(d) - 1))
            \o SpeakerSegments(d[Len(d)].k, d[Len(d)].v)

\* One insertion of list.sort(key=start): x goes behind every element whose key
\* is not greater, so equal keys keep their order (Python's sort is stable).
InsertUnstable(sorted, x) ==
    LET n == Cardinality({i \in 1..Len(sorted) : sorted[i].start.t < x.start.t})
    IN SubSeq(sorted, 1, n) \o <<x>> \o SubSeq(sorted, n + 1, Len(sorted))

InsertByStart(sorted, x) ==
    LET n == Cardinality({i \in 1..Len(sorted) : sorted[i].start.t <= x.start.t})
    IN SubSeq(sorted, 1, n) \o <<x>> \o SubSeq(sorted, n + 1, Len(sorted))

RECURSIVE SortByStart(_)
SortByStart(s) ==
    IF s = <<>> THEN <<>>
    ELSE InsertByStart(SortByStart(SubSeq(s, 1, Len(s) - 1)), s[Len(s)])

\* interleave_transcripts without line 176.
interleave_unsorted(d) == all_segments(d)

interleave_transcripts(d) == SortByStart(all_segments(d))

InitInterleave ==
    /\ i_pc = "call"
    /\ transcriptions \in TranscriptionDicts
    /\ interleaved = <<>>

Interleave ==
    /\ i_pc = "call"
    /\ interleaved' = interleave_transcripts(transcriptions)
    /\ i_pc' = "done"
    /\ UNCHANGED transcriptions
    /\ UNCHANGED <<cvars, tvars, lvars>>

IdleInterleave ==
    /\ i_pc = "idle"
    /\ transcriptions = <<>>
    /\ interleaved = <<>>

(***************************************************************************)
(* Speaker transcription adapter.                                          *)
(***************************************************************************)
\* The longest list of raw segments the recognition model returns for a file.
MaxRaw == 2

SecondsPerDay == 86400

NoTime == [kind |-> "none", t |-> 0]

\* The anchors a caller passes, 09:00:00 and 23:59:58 of two days, and the
\* instants datetime.now() may return.
Anchors == {Dt(3 * SecondsPerDay + 32400), Dt(4 * SecondsPerDay + 86398)}

Nows == {Dt(7 * SecondsPerDay + 40000), Dt(8 * SecondsPerDay)}

PathOf(speaker) == OriginalPath(<<speaker>>)

\* Every dict of speakers to their files, in every insertion order.
WavFileDicts ==
    {<<>>}
    \cup {<<[k |-> s, v |-> PathOf(s)]>> : s \in SpeakerLabels}
    \cup {<<[k |-> s1, v |-> PathOf(s1)], [k |-> s2, v |-> PathOf(s2)]>> :
            <<s1, s2>> \in {p \in SpeakerLabels \X SpeakerLabels : p[1] # p[2]}}

\* The raw segments of the model: offsets in seconds and untrimmed text.
RawPool ==
    { [start |-> 0, end |-> 2, segment |-> <<" ", "h", "i", " ">>],
      [start |-> 2, end |-> 5, segment |-> <<"y", "o">>],
      [start |-> 5, end |-> 7, segment |-> <<" ">>] }

RawLists == UNION {[1..n -> RawPool] : n \in 0..MaxRaw}

Whitespace == {" "}

RECURSIVE LStrip(_)
LStrip(s) == IF s # <<>> /\ Head(s) \in Whitespace THEN LStrip(Tail(s)) ELSE s

RECURSIVE RStrip(_)
RStrip(s) ==
    IF s # <<>> /\ s[Len(s)] \in Whitespace THEN RStrip(SubSeq(s, 1, Len(s) - 1)) ELSE s

\* str.strip().
Strip(s) == RStrip(LStrip(s))

\* datetime.now().replace(hour=0, minute=0, second=0, microsecond=0).
Midnight(now) == Dt(now.t - (now.t % SecondsPerDay))

\* Lines 83-86: the local meeting_start_time.
DefaultStart(arg, now) == IF arg = NoTime THEN Midnight(now) ELSE arg

\* The truth value of "if meeting_start_time:": None is false, a datetime true.
Truthy(v) == v.kind # "none"

\* Lines 125-130: an offset of the model, anchored or left as it is.
SegTime(start, seconds) ==
    IF Truthy(start) THEN Dt(start.t + seconds) ELSE Num(seconds)

\* An adapter that drops the segments whose text is empty after trimming.
SegmentsWithText(speaker, start, rawsegs) ==
    LET kept == SelectSeq(rawsegs, LAMBDA r : Strip(r.segment) # <<>>)
    IN [i \in 1..Len(kept) |->
            [start |-> SegTime(start, kept[i].start),
             end |-> SegTime(start, kept[i].end),
             text |-> Strip(kept[i].segment),
             speaker |-> speaker]]

\* Lines 120-139: the segments made of one file's raw segments.
Segments(speaker, start, rawsegs) ==
    [i \in 1..Len(rawsegs) |->
        [start |-> SegTime(start, rawsegs[i].start),
         end |-> SegTime(start, rawsegs[i].end),
         text |-> Strip(rawsegs[i].segment),
         speaker |-> speaker]]

\* A test of line 112 that never takes the branch.
NeverSkips(has_speech) == FALSE

\* Line 112: "if not _has_speech(...)".
SkipsFile(has_speech) == ~has_speech

IdleTranscribe ==
    /\ t_pc = "idle"
    /\ wav_files = <<>>
    /\ meeting_start_arg = NoTime
    /\ meeting_start_time = NoTime
    /\ t_idx = 0
    /\ t_transcriptions = <<>>
    /\ t_result = <<>>
    /\ silent = {}
    /\ asr_calls = <<>>
    /\ raw = <<>>
    /\ t_models = {}
    /\ t_cache_cleared = FALSE

\* transcribe_audio_multi up to its loop (lines 81-106): the anchor is
\* defaulted and the models are loaded.
TranscribeCall ==
    /\ t_pc = "idle"
    /\ \E files \in WavFileDicts, arg \in Anchors \cup {NoTime}, now \in Nows :
        /\ wav_files' = files
        /\ meeting_start_arg' = arg
        /\ meeting_start_time' = DefaultStart(arg, now)
    /\ t_pc' = "loop"
    /\ t_idx' = 1
    /\ t_models' = {"vad", "asr"}
    /\ UNCHANGED <<t_transcriptions, t_result, silent, asr_calls, raw, t_cache_cleared>>
    /\ UNCHANGED <<cvars, ivars, lvars>>

\* One turn of the loop of lines 108-140.  _has_speech answers or raises; a
\* file without speech gets the empty list and the model is not run on it; on
\* any other file asr_model.transcribe returns raw segments or raises.
TranscribeSpeaker ==
    /\ t_pc = "loop"
    /\ t_idx <= Len(wav_files)
    /\ LET speaker == wav_files[t_idx].k
           file == wav_files[t_idx].v
       IN \/ \* _has_speech raises
             /\ t_pc' = "raised"
             /\ UNCHANGED <<t_idx, t_transcriptions, silent, asr_calls, raw>>
          \/ \E has_speech \in BOOLEAN :
                /\ silent' = IF has_speech THEN silent ELSE silent \cup {speaker}
                /\ IF SkipsFile(has_speech)
                   THEN /\ t_transcriptions' = DictSet(t_transcriptions, speaker, <<>>)
                        /\ t_idx' = t_idx + 1
                        /\ UNCHANGED <<t_pc, asr_calls, raw>>
                   ELSE /\ asr_calls' = Append(asr_calls, file)
                        /\ \/ \* asr_model.transcribe raises
                              /\ t_pc' = "raised"
                              /\ UNCHANGED <<t_idx, t_transcriptions, raw>>
                           \/ \E out \in RawLists :
                                /\ raw' = DictSet(raw, speaker, out)
                                /\ t_transcriptions' =
                                        DictSet(t_transcriptions, speaker,
                                                Segments(speaker, meeting_start_time, out))
                                /\ t_idx' = t_idx + 1
                                /\ UNCHANGED t_pc
    /\ UNCHANGED <<wav_files, meeting_start_arg, meeting_start_time, t_result, t_models,
                   t_cache_cleared>>
    /\ UNCHANGED <<cvars, ivars, lvars>>

\* Lines 143-144: del asr_model, del vad_model.
ModelsKept(models) == models \ {"asr", "vad"}

\* Lines 142-146: the loop is over, the models are dropped, the device cache
\* is cleared and the dict returned.  These lines are the only release: an
\* error raised in the loop leaves the function past them.
TranscribeReturn ==
    /\ t_pc = "loop"
    /\ t_idx > Len(wav_files)
    /\ t_pc' = "returned"
    /\ t_result' = t_transcriptions
    /\ t_models' = ModelsKept(t_models)
    /\ t_cache_cleared' = TRUE
    /\ UNCHANGED <<wav_files, meeting_start_arg, meeting_start_time, t_idx,
                   t_transcriptions, silent, asr_calls, raw>>
    /\ UNCHANGED <<cvars, ivars, lvars>>

NextTranscribe == TranscribeCall \/ TranscribeSpeaker \/ TranscribeReturn

(***************************************************************************)
(* Transcript serializer (save_transcript_to_file).  A line of the file is *)
(* a sequence of strings, its pieces in order, a speaker label or a text a  *)
(* sequence of characters; a file is [exists, lines].                      *)
(***************************************************************************)
\* The longest list of segments handed to the serializer.
MaxLines == 2

DigitChar(d) == CharOrder[Ord("0") + d]

\* "%02d" and "%04d".
Pad2(n) == <<DigitChar((n \div 10) % 10), DigitChar(n % 10)>>

Pad4(n) == Pad2(n \div 100) \o Pad2(n % 100)

\* "%d" of a natural number.
RECURSIVE Dec(_)
Dec(n) == IF n < 10 THEN <<DigitChar(n)>> ELSE Dec(n \div 10) \o <<DigitChar(n % 10)>>

\* The date of a datetime: year, month and day of the day t falls on, in the
\* proleptic Gregorian calendar, day 0 being 1970-01-01.
CivilFromDays(days) ==
    LET z == days + 719468
        era == z \div 146097
        doe == z - era * 146097
        yoe == (doe - doe \div 1460 + doe \div 36524 - doe \div 146096) \div 365
        doy == doe - (365 * yoe + yoe \div 4 - yoe \div 100)
        mp == (5 * doy + 2) \div 153
        d == doy - (153 * mp + 2) \div 5 + 1
        m == IF mp < 10 THEN mp + 3 ELSE mp - 9
        y == yoe + era * 400 + (IF m <= 2 THEN 1 ELSE 0)
    IN [year |-> y, month |-> m, day |-> d]

\* A clock that leaves the seconds out.
strftime_HM(dt) ==
    LET sod == dt.t % SecondsPerDay
    IN Pad2(sod \div 3600) \o <<":">> \o Pad2((sod \div 60) % 60)

\* strftime("%H:%M:%S").
strftime_HMS(dt) ==
    LET sod == dt.t % SecondsPerDay
    IN Pad2(sod \div 3600) \o <<":">> \o Pad2((sod \div 60) % 60)
            \o <<":">> \o Pad2(sod % 60)

\* strftime("%Y-%m-%d").
strftime_Ymd(dt) ==
    LET c == CivilFromDays(dt.t \div SecondsPerDay)
    IN Pad4(c.year) \o <<"-">> \o Pad2(c.month) \o <<"-">> \o Pad2(c.day)

\* str(timedelta(seconds=n)) for whole seconds: "[D day[s], ]H:MM:SS".
str_timedelta(n) ==
    LET days == n \div SecondsPerDay
        sod == n % SecondsPerDay
    IN (IF days = 0 THEN <<>>
        ELSE Dec(days) \o <<IF days = 1 THEN " day, " ELSE " days, ">>)
       \o Dec(sod \div 3600) \o <<":">> \o Pad2((sod \div 60) % 60)
       \o <<":">> \o Pad2(sod % 60)

\* Lines 214-223: a start or end as the file shows it.
ShownTime(v) == IF v.kind = "dt" THEN strftime_HMS(v) ELSE str_timedelta(v.t)

\* Lines 210-212: the first line of the file.
HeaderLine(start_time) ==
    <<"Meeting Start Date and Time: ">> \o strftime_Ymd(start_time)
        \o <<" ">> \o strftime_HMS(start_time)

\* Lines 224-226: the line of one segment.
SegmentLine(seg) ==
    <<"[">> \o ShownTime(seg.start) \o <<" - ">> \o ShownTime(seg.end)
        \o <<"] (">> \o seg.speaker \o <<") ">> \o seg.text

\* Everything lines 209-227 write for a start_time that is not None.
TranscriptLines(segments, start_time) ==
    <<HeaderLine(start_time)>>
        \o [i \in 1..Len(segments) |-> SegmentLine(segments[i])]

File(lines) == [exists |-> TRUE, lines |-> lines]

Absent == [exists |-> FALSE, lines |-> <<>>]

\* The segments a caller passes: anchored ones out of start order, one that
\* ends after midnight and one that starts after it, one with empty text, one
\* with plain offsets.
SaveSegPool ==
    { [start |-> Dt(3 * SecondsPerDay + 32405), end |-> Dt(3 * SecondsPerDay + 32408),
       text |-> <<"h", "i">>, speaker |-> <<"B">>],
      [start |-> Dt(3 * SecondsPerDay + 32402), end |-> Dt(3 * SecondsPerDay + 32403),
       text |-> <<>>, speaker |-> <<"A">>],
      [start |-> Dt(4 * SecondsPerDay + 86399), end |-> Dt(5 * SecondsPerDay + 3),
       text |-> <<"y", "o">>, speaker |-> <<"A">>],
      [start |-> Dt(5 * SecondsPerDay + 2), end |-> Dt(5 * SecondsPerDay + 4),
       text |-> <<"h", "i">>, speaker |-> <<"B">>],
      [start |-> Num(5), end |-> Num(90007), text |-> <<"y", "o">>, speaker |-> <<"B">>] }

SaveSegLists == UNION {[1..n -> SaveSegPool] : n \in 0..MaxLines}

\* What the target may hold before the call: nothing, or an earlier transcript.
OldTranscript ==
    File(TranscriptLines(<<[start |-> Dt(32400), end |-> Dt(32401),
                            text |-> <<"o", "l", "d">>, speaker |-> <<"A">>]>>, Dt(32400)))

IdleSave ==
    /\ s_pc = "idle"
    /\ s_segments = <<>>
    /\ s_start = NoTime
    /\ s_target = Absent
    /\ s_before = Absent
    /\ s_idx = 0

InitSave ==
    /\ s_pc = "idle"
    /\ s_segments = <<>>
    /\ s_start = NoTime
    /\ s_target \in {Absent, OldTranscript}
    /\ s_before = s_target
    /\ s_idx = 0

\* save_transcript_to_file(segments, output_file, start_time) is called;
\* pickle_bool keeps its default, so lines 200-207 are skipped.
SaveCall ==
    /\ s_pc = "idle"
    /\ s_segments' \in SaveSegLists
    /\ s_start' \in Anchors \cup {NoTime}
    /\ s_pc' = "open"
    /\ UNCHANGED <<s_target, s_before, s_idx>>
    /\ UNCHANGED <<cvars, ivars, tvars, pvars, rvars, nvars, uvars>>

\* Line 209: open(output_file, "w") empties the file at the target path or
\* makes it, or raises and leaves the path alone.
SaveOpen ==
    /\ s_pc = "open"
    /\ \/ /\ s_target' = File(<<>>)
          /\ s_pc' = "header"
       \/ /\ s_pc' = "raised"
          /\ UNCHANGED s_target
    /\ UNCHANGED <<s_segments, s_start, s_before, s_idx>>
    /\ UNCHANGED <<cvars, ivars, tvars, pvars, rvars, nvars, uvars>>

\* Lines 210-212: the header is written.  start_time.strftime raises for None,
\* and a write may fail; the with statement then closes the file as it is.
SaveHeader ==
    /\ s_pc = "header"
    /\ \/ /\ Truthy(s_start)
          /\ s_target' = File(<<HeaderLine(s_start)>>)
          /\ s_pc' = "lines"
          /\ s_idx' = 1
       \/ /\ s_pc' = "raised"
          /\ UNCHANGED <<s_target, s_idx>>
    /\ UNCHANGED <<s_segments, s_start, s_before>>
    /\ UNCHANGED <<cvars, ivars, tvars, pvars, rvars, nvars, uvars>>

\* One turn of the loop of lines 213-227: the segment's line is written, or
\* the write fails.
SaveLine ==
    /\ s_pc = "lines"
    /\ s_idx <= Len(s_segments)
    /\ \/ /\ s_target' = File(Append(s_target.lines, SegmentLine(s_segments[s_idx])))
          /\ s_idx' = s_idx + 1
          /\ UNCHANGED s_pc
       \/ /\ s_pc' = "raised"
          /\ UNCHANGED <<s_target, s_idx>>
    /\ UNCHANGED <<s_segments, s_start, s_before>>
    /\ UNCHANGED <<cvars, ivars, tvars, pvars, rvars, nvars, uvars>>

\* The loop is over: the file is closed and the call returns.
SaveReturn ==
    /\ s_pc = "lines"
    /\ s_idx > Len(s_segments)
    /\ s_pc' = "returned"
    /\ UNCHANGED <<s_segments, s_start, s_target, s_before, s_idx>>
    /\ UNCHANGED <<cvars, ivars, tvars, pvars, rvars, nvars, uvars>>

NextSave == SaveCall \/ SaveOpen \/ SaveHeader \/ SaveLine \/ SaveReturn

(***************************************************************************)
(* The pipeline (note_taker_pipeline) over the folders on disk: conversion *)
(* (convert_audio_files), gathering and combination, transcription,        *)
(* interleaving, serialization, notes.  A run starts from what the runs    *)
(* before it left on disk.                                                 *)
(***************************************************************************)
M4aSuffix == <<".", "m", "4", "a">>

\* f.replace(".m4a", ".wav") for a name whose only ".m4a" is its ending.
WavOfM4a(f) == SubSeq(f, 1, Len(f) - Len(M4aSuffix)) \o WavSuffix

M4aOfWav(f) == SubSeq(f, 1, Len(f) - Len(WavSuffix)) \o M4aSuffix

\* The master recording Zoom leaves in the meeting folder.
MasterM4a == AudioPrefix \o Magic \o M4aSuffix

\* What "Audio Record" may hold: nothing, one file each for amy and bob, two
\* parts for bob, or a file whose name lacks a digit.
SpeakerM4as ==
    { {},
      {M4aOfWav(FileName(Amy, "1", "1")), M4aOfWav(FileName(Bob, "1", "1"))},
      {M4aOfWav(FileName(Amy, "1", "1")), M4aOfWav(FileName(Bob, "1", "1")),
       M4aOfWav(FileName(Bob, "1", "2"))},
      {M4aOfWav(FileName(Amy, "1", "1")),
       M4aOfWav(AudioPrefix \o Dan \o <<"1">> \o Magic \o WavSuffix)} }

\* The meeting folders: with or without a master recording, with or without
\* the "Audio Record" subdirectory.  Every run on a folder is given the same
\* args.start_time; the runs differ in args.overwrite.
PipeFolders ==
    {[masters |-> ms, record_dir |-> TRUE, m4a |-> fs] :
        ms \in SUBSET {MasterM4a}, fs \in SpeakerM4as}
    \cup {[masters |-> ms, record_dir |-> FALSE, m4a |-> {}] : ms \in SUBSET {MasterM4a}}

\* Lines 69-78: args.start_time, or 2020-01-01 00:00:00 when there is none.
DefaultMeetingStart == Dt(18262 * SecondsPerDay)

MeetingStart(arg) == IF Truthy(arg) THEN arg ELSE DefaultMeetingStart

\* What a run is given as args.start_time: None, or 09:00:00 of a day.
PipeStartArgs == {NoTime, Dt(3 * SecondsPerDay + 32400)}

\* strftime("%Y%m%d_%H%M").
strftime_YmdHM(dt) ==
    LET c == CivilFromDays(dt.t \div SecondsPerDay)
        sod == dt.t % SecondsPerDay
    IN Pad4(c.year) \o Pad2(c.month) \o Pad2(c.day) \o <<"_">>
            \o Pad2(sod \div 3600) \o Pad2((sod \div 60) % 60)

\* A transcript name made from the placeholder start whatever the run's start.
TranscriptNameFixed(start) ==
    <<"transcript_">> \o strftime_YmdHM(DefaultMeetingStart) \o <<".txt">>

\* Lines 105-112: the names of the two output files.
TranscriptName(start) == <<"transcript_">> \o strftime_YmdHM(start) \o <<".txt">>

NotesName(start) == <<"notes_">> \o strftime_YmdHM(start) \o <<".md">>

TranscriptNames == {TranscriptName(MeetingStart(a)) : a \in PipeStartArgs}

\* A test of line 115 that looks at the file only.
TranscribeWhenMissing(exists, overwrite) == ~exists

\* A test of line 115 that always transcribes.
AlwaysTranscribe(exists, overwrite) == TRUE

\* Line 115: "if not os.path.exists(output_transcript_filename) or args.overwrite".
TranscriptNeeded(exists, overwrite) == (~exists) \/ overwrite

\* A pipeline that goes on after a failed transcription.
CaughtTranscribe(stage) == stage = "transcribe"

\* note_taker_pipeline has no try/except: an exception of any stage ends the run.
Caught(stage) == FALSE

\* os.listdir: the names in some order (line 341 sorts them in place later).
RECURSIVE ListDir(_)
ListDir(S) ==
    IF S = {} THEN <<>>
    ELSE LET x == CHOOSE x \in S : TRUE IN <<x>> \o ListDir(S \ {x})

\* The recognition model's answers for a file with speech.
PipeRawLists ==
    { <<[start |-> 4, end |-> 5, segment |-> <<"y", "o">>],
        [start |-> 1, end |-> 3, segment |-> <<" ", "h", "i", " ">>]>>,
      <<[start |-> 2, end |-> 2, segment |-> <<" ">>]>> }

\* Lines 381-394 for every speaker: the mapping to the combined paths.
CombinedMapping(d) ==
    [i \in 1..Len(d) |-> [k |-> d[i].k, v |-> combined_file_path(d[i].k)]]

NoLlm == [called |-> FALSE, input |-> Absent]

\* The variables of a run before it starts.
RunAtRest ==
    /\ p_overwrite = FALSE
    /\ p_start = NoTime
    /\ p_wav_files = <<>>
    /\ p_idx = 0
    /\ p_raw = <<>>
    /\ p_local = <<>>
    /\ p_transcriptions = <<>>
    /\ p_interleaved = <<>>
    /\ p_transcodes = {}
    /\ p_joins = {}
    /\ p_asr = {}
    /\ p_llm = NoLlm
    /\ p_wrote = {}
    /\ p_err = ""

IdlePipeline ==
    /\ p_pc = "idle"
    /\ p_folder = [masters |-> {}, record_dir |-> FALSE, m4a |-> {}]
    /\ p_master_wavs = {}
    /\ p_wavs = {}
    /\ p_combined = {}
    /\ p_transcript = [n \in TranscriptNames |-> Absent]
    /\ p_notes = {}
    /\ p_complete = {}
    /\ p_prev = FALSE
    /\ p_start_arg = NoTime
    /\ RunAtRest

\* A meeting folder as Zoom left it and an empty output folder.
InitPipeline ==
    /\ p_pc = "idle"
    /\ p_folder \in PipeFolders
    /\ p_master_wavs = {}
    /\ p_wavs = {}
    /\ p_combined = {}
    /\ p_transcript = [n \in TranscriptNames |-> Absent]
    /\ p_notes = {}
    /\ p_complete = {}
    /\ p_prev = FALSE
    /\ p_start_arg \in PipeStartArgs
    /\ RunAtRest

disk == <<p_folder, p_master_wavs, p_wavs, p_combined, p_transcript, p_notes, p_complete,
          p_start_arg>>

\* The stage after one that raised: the run ends unless the error is caught.
AfterError(stage, next) == IF Caught(stage) THEN next ELSE "raised"

\* note_taker_pipeline(args) is called (lines 69-78): a run begins, after the
\* run before it has ended.
PipeStart ==
    /\ p_pc \in {"idle", "done", "raised"}
    /\ p_overwrite' \in BOOLEAN
    /\ p_start' = MeetingStart(p_start_arg)
    /\ p_prev' = (p_pc = "done" \/ (p_pc = "raised" /\ p_err = "notes"))
    /\ p_pc' = "masters"
    /\ p_wav_files' = <<>>
    /\ p_idx' = 0
    /\ p_raw' = <<>>
    /\ p_local' = <<>>
    /\ p_transcriptions' = <<>>
    /\ p_interleaved' = <<>>
    /\ p_transcodes' = {}
    /\ p_joins' = {}
    /\ p_asr' = {}
    /\ p_llm' = NoLlm
    /\ p_wrote' = {}
    /\ p_err' = ""
    /\ UNCHANGED disk
    /\ UNCHANGED <<cvars, ivars, tvars, svars, rvars, nvars, uvars>>

\* convert_audio_files, lines 18-47: every master .m4a without a .wav beside
\* it is handed to ffmpeg, which writes the .wav or fails (check=True raises).
PipeConvertMasters ==
    /\ p_pc = "masters"
    /\ LET missing == {f \in p_folder.masters : WavOfM4a(f) \notin p_master_wavs}
       IN \/ /\ p_transcodes' = p_transcodes \cup missing
             /\ p_master_wavs' = p_master_wavs \cup {WavOfM4a(f) : f \in missing}
             /\ p_wrote' = IF missing = {} THEN p_wrote ELSE p_wrote \cup {"wav"}
             /\ p_pc' = "record"
             /\ UNCHANGED p_err
          \/ \E f \in missing :
             /\ p_transcodes' = p_transcodes \cup {f}
             /\ UNCHANGED <<p_master_wavs, p_wrote>>
             /\ p_pc' = "raised"
             /\ p_err' = "ffmpeg"
    /\ UNCHANGED <<p_folder, p_wavs, p_combined, p_transcript, p_notes, p_complete, p_start_arg>>
    /\ UNCHANGED <<p_overwrite, p_start, p_wav_files, p_idx, p_raw, p_local,
                   p_transcriptions, p_interleaved, p_joins, p_asr, p_llm, p_prev>>
    /\ UNCHANGED <<cvars, ivars, tvars, svars, rvars, nvars, uvars>>

\* convert_audio_files, lines 49-64: the "Audio Record" subdirectory must be
\* there and hold a .m4a file.
PipeCheckRecord ==
    /\ p_pc = "record"
    /\ IF ~p_folder.record_dir
       THEN p_pc' = "raised" /\ p_err' = "no Audio Record"
       ELSE IF p_folder.m4a = {}
            THEN p_pc' = "raised" /\ p_err' = "no audio files"
            ELSE p_pc' = "speakers" /\ UNCHANGED p_err
    /\ UNCHANGED disk
    /\ UNCHANGED <<p_overwrite, p_start, p_wav_files, p_idx, p_raw, p_local,
                   p_transcriptions, p_interleaved, p_transcodes, p_joins, p_asr, p_llm,
                   p_wrote, p_prev>>
    /\ UNCHANGED <<cvars, ivars, tvars, svars, rvars, nvars, uvars>>

\* convert_audio_files, lines 66-83: every speaker .m4a without a .wav is
\* handed to ffmpeg.
PipeConvertSpeakers ==
    /\ p_pc = "speakers"
    /\ LET missing == {f \in p_folder.m4a : WavOfM4a(f) \notin p_wavs}
       IN \/ /\ p_transcodes' = p_transcodes \cup missing
             /\ p_wavs' = p_wavs \cup {WavOfM4a(f) : f \in missing}
             /\ p_wrote' = IF missing = {} THEN p_wrote ELSE p_wrote \cup {"wav"}
             /\ p_pc' = "combine"
             /\ UNCHANGED p_err
          \/ \E f \in missing :
             /\ p_transcodes' = p_transcodes \cup {f}
             /\ UNCHANGED <<p_wavs, p_wrote>>
             /\ p_pc' = "raised"
             /\ p_err' = "ffmpeg"
    /\ UNCHANGED <<p_folder, p_master_wavs, p_combined, p_transcript, p_notes, p_complete, p_start_arg>>
    /\ UNCHANGED <<p_overwrite, p_start, p_wav_files, p_idx, p_raw, p_local,
                   p_transcriptions, p_interleaved, p_joins, p_asr, p_llm, p_prev>>
    /\ UNCHANGED <<cvars, ivars, tvars, svars, rvars, nvars, uvars>>

\* Lines 85-86 of the pipeline: gather_wave_files lists the .wav files of
\* "Audio Record" and combine_audio_files groups them: a bad name raises, one
\* file per speaker gives the files themselves, and otherwise the joiner runs
\* for every speaker without a combined file, and may fail.
PipeCombine ==
    /\ p_pc = "combine"
    /\ LET r == get_recordings_dict(SortFiles(ListDir(p_wavs)))
       IN IF ~r.ok
          THEN /\ p_pc' = "raised"
               /\ p_err' = "bad file name"
               /\ UNCHANGED <<p_wav_files, p_combined, p_joins, p_wrote>>
          ELSE IF FastPath(r.dict)
          THEN /\ p_pc' = "names"
               /\ p_wav_files' = FastMapping(r.dict)
               /\ UNCHANGED <<p_err, p_combined, p_joins, p_wrote>>
          ELSE LET todo == DictKeys(r.dict) \ p_combined
               IN \/ /\ p_pc' = "names"
                     /\ p_wav_files' = CombinedMapping(r.dict)
                     /\ p_joins' = p_joins \cup todo
                     /\ p_combined' = p_combined \cup todo
                     /\ p_wrote' = IF todo = {} THEN p_wrote ELSE p_wrote \cup {"combined"}
                     /\ UNCHANGED p_err
                  \/ \E name \in todo, left \in BOOLEAN :
                     /\ p_pc' = "raised"
                     /\ p_err' = "joiner"
                     /\ p_joins' = p_joins \cup {name}
                     /\ p_combined' = IF left THEN p_combined \cup {name} ELSE p_combined
                     /\ p_wrote' = IF left THEN p_wrote \cup {"combined"} ELSE p_wrote
                     /\ UNCHANGED p_wav_files
    /\ UNCHANGED <<p_folder, p_master_wavs, p_wavs, p_transcript, p_notes, p_complete, p_start_arg>>
    /\ UNCHANGED <<p_overwrite, p_start, p_idx, p_raw, p_local,
                   p_transcriptions, p_interleaved, p_transcodes, p_asr, p_llm, p_prev>>
    /\ UNCHANGED <<cvars, ivars, tvars, svars, rvars, nvars, uvars>>

\* Lines 105-115 and 128-130: the branch on the transcript file.
PipeBranch ==
    /\ p_pc = "names"
    /\ IF TranscriptNeeded(p_transcript[TranscriptName(p_start)].exists, p_overwrite)
       THEN p_pc' = "transcribe" /\ p_idx' = 1
       ELSE p_pc' = "notes" /\ UNCHANGED p_idx
    /\ UNCHANGED disk
    /\ UNCHANGED <<p_overwrite, p_start, p_wav_files, p_raw, p_local,
                   p_transcriptions, p_interleaved, p_transcodes, p_joins, p_asr, p_llm,
                   p_wrote, p_err, p_prev>>
    /\ UNCHANGED <<cvars, ivars, tvars, svars, rvars, nvars, uvars>>

\* One turn of transcribe_audio_multi's loop (lines 108-140) inside the run: a
\* file without speech gets the empty list, the model answers for the others or
\* raises, and then the dict being built is lost.
PipeTranscribeSpeaker ==
    /\ p_pc = "transcribe"
    /\ p_idx <= Len(p_wav_files)
    /\ LET speaker == p_wav_files[p_idx].k
       IN \/ \* no speech
             /\ p_local' = DictSet(p_local, speaker, <<>>)
             /\ p_idx' = p_idx + 1
             /\ UNCHANGED <<p_pc, p_err, p_asr, p_raw>>
          \/ \* asr_model.transcribe raises
             /\ p_asr' = p_asr \cup {speaker}
             /\ p_local' = <<>>
             /\ p_err' = "transcribe"
             /\ p_pc' = AfterError("transcribe", "interleave")
             /\ UNCHANGED <<p_idx, p_raw>>
          \/ \E out \in PipeRawLists :
             /\ p_asr' = p_asr \cup {speaker}
             /\ p_raw' = DictSet(p_raw, speaker, out)
             /\ p_local' = DictSet(p_local, speaker, Segments(speaker, p_start, out))
             /\ p_idx' = p_idx + 1
             /\ UNCHANGED <<p_pc, p_err>>
    /\ UNCHANGED disk
    /\ UNCHANGED <<p_overwrite, p_start, p_wav_files, p_transcriptions,
                   p_interleaved, p_transcodes, p_joins, p_llm, p_wrote, p_prev>>
    /\ UNCHANGED <<cvars, ivars, tvars, svars, rvars, nvars, uvars>>

\* A loop that may hand its dict on after the first file.
FirstFileDone(idx, files) == idx > 1

\* Line 108: the for loop over wav_files.items() ends after the last file.
LoopDone(idx, files) == idx > Len(files)

\* Lines 142-146 and line 116: the loop is over and the dict is returned.
PipeTranscribeReturn ==
    /\ p_pc = "transcribe"
    /\ LoopDone(p_idx, p_wav_files)
    /\ p_transcriptions' = p_local
    /\ p_local' = <<>>
    /\ p_pc' = "interleave"
    /\ UNCHANGED disk
    /\ UNCHANGED <<p_overwrite, p_start, p_wav_files, p_idx, p_raw,
                   p_interleaved, p_transcodes, p_joins, p_asr, p_llm, p_wrote, p_err, p_prev>>
    /\ UNCHANGED <<cvars, ivars, tvars, svars, rvars, nvars, uvars>>

\* Line 121.
PipeInterleave ==
    /\ p_pc = "interleave"
    /\ p_interleaved' = interleave_transcripts(p_transcriptions)
    /\ p_pc' = "save"
    /\ UNCHANGED disk
    /\ UNCHANGED <<p_overwrite, p_start, p_wav_files, p_idx, p_raw, p_local,
                   p_transcriptions, p_transcodes, p_joins, p_asr, p_llm, p_wrote, p_err,
                   p_prev>>
    /\ UNCHANGED <<cvars, ivars, tvars, svars, rvars, nvars, uvars>>

\* Lines 123-127: save_transcript_to_file(interleaved_transcript, name,
\* start_time=meeting_start_time).  The open fails and the path is left alone,
\* or the file is emptied and a write fails after some of the lines, or all
\* the lines are written.
PipeSave ==
    /\ p_pc = "save"
    /\ LET name == TranscriptName(p_start)
           all == TranscriptLines(p_interleaved, p_start)
       IN \/ /\ p_pc' = "raised"
             /\ p_err' = "save"
             /\ UNCHANGED <<p_transcript, p_complete, p_wrote>>
          \/ \E k \in 0..(Len(all) - 1) :
             /\ p_transcript' = [p_transcript EXCEPT ![name] = File(SubSeq(all, 1, k))]
             /\ p_complete' = p_complete \ {name}
             /\ p_wrote' = p_wrote \cup {"transcript"}
             /\ p_pc' = "raised"
             /\ p_err' = "save"
          \/ /\ p_transcript' = [p_transcript EXCEPT ![name] = File(all)]
             /\ p_complete' = p_complete \cup {name}
             /\ p_wrote' = p_wrote \cup {"transcript"}
             /\ p_pc' = "notes"
             /\ UNCHANGED p_err
    /\ UNCHANGED <<p_folder, p_master_wavs, p_wavs, p_combined, p_notes, p_start_arg>>
    /\ UNCHANGED <<p_overwrite, p_start, p_wav_files, p_idx, p_raw, p_local,
                   p_transcriptions, p_interleaved, p_transcodes, p_joins, p_asr, p_llm,
                   p_prev>>
    /\ UNCHANGED <<cvars, ivars, tvars, svars, rvars, nvars, uvars>>

\* Lines 133-142: ollama_api_notes(transcript_path=name) reads the transcript
\* file and raises before the model is called, or calls it; the call may
\* raise, and so may the parsing of its answer, after the thought-process file
\* has been written beside the transcript.
PipeNotes ==
    /\ p_pc = "notes"
    /\ LET read == p_transcript[TranscriptName(p_start)]
       IN \/ /\ p_pc' = "raised"
             /\ p_err' = "notes"
             /\ UNCHANGED <<p_llm, p_wrote>>
          \/ /\ p_llm' = [called |-> TRUE, input |-> read]
             /\ \/ /\ p_pc' = "raised"
                   /\ p_err' = "notes"
                   /\ UNCHANGED p_wrote
                \/ /\ p_pc' = "raised"
                   /\ p_err' = "notes"
                   /\ p_wrote' = p_wrote \cup {"thought"}
                \/ /\ p_pc' = "write"
                   /\ p_wrote' = p_wrote \cup {"thought"}
                   /\ UNCHANGED p_err
    /\ UNCHANGED disk
    /\ UNCHANGED <<p_overwrite, p_start, p_wav_files, p_idx, p_raw, p_local,
                   p_transcriptions, p_interleaved, p_transcodes, p_joins, p_asr, p_prev>>
    /\ UNCHANGED <<cvars, ivars, tvars, svars, rvars, nvars, uvars>>

\* Lines 147-149: the notes made from the transcript the summarizer read are
\* written to the notes file.
PipeWriteNotes ==
    /\ p_pc = "write"
    /\ p_notes' = p_notes \cup {NotesName(p_start)}
    /\ p_wrote' = p_wrote \cup {"notes"}
    /\ p_pc' = "done"
    /\ UNCHANGED <<p_folder, p_master_wavs, p_wavs, p_combined, p_transcript, p_complete, p_start_arg>>
    /\ UNCHANGED <<p_overwrite, p_start, p_wav_files, p_idx, p_raw, p_local,
                   p_transcriptions, p_interleaved, p_transcodes, p_joins, p_asr, p_llm,
                   p_err, p_prev>>
    /\ UNCHANGED <<cvars, ivars, tvars, svars, rvars, nvars, uvars>>

NextPipeline ==
    \/ PipeStart \/ PipeConvertMasters \/ PipeCheckRecord \/ PipeConvertSpeakers
    \/ PipeCombine \/ PipeBranch \/ PipeTranscribeSpeaker \/ PipeTranscribeReturn
    \/ PipeInterleave \/ PipeSave \/ PipeNotes \/ PipeWriteNotes

(***************************************************************************)
(* Notes renderer (notes_json_to_markdown).  A JSON string field is a      *)
(* record [st, s]: st "absent" for a missing key, "null" for null, "str"    *)
(* for a string s.  A list field is [st, items] likewise, the header        *)
(* [st, date, time, attendees, subject].  An entry of topics, of            *)
(* action_items or of a group's items is an object, or null (isnull).  A    *)
(* line of the Markdown text is the sequence of its pieces, the text the    *)
(* sequence of its lines.                                                   *)
(***************************************************************************)
\* The longest list inside a document.
MaxItems == 1

AbsentStr == [st |-> "absent", s |-> ""]

NullStr == [st |-> "null", s |-> ""]

Str(x) == [st |-> "str", s |-> x]

AbsentList == [st |-> "absent", items |-> <<>>]

NullList == [st |-> "null", items |-> <<>>]

List(l) == [st |-> "list", items |-> l]

\* The truth value of d.get(key) for a string field: None and "" are false.
HasText(v) == v.st = "str" /\ v.s # ""

\* d.get(key, []) or [].
ItemsOf(l) == IF l.st = "list" THEN l.items ELSE <<>>

\* A line from its pieces: an empty piece adds nothing to the text.
Line(pieces) == SelectSeq(pieces, LAMBDA x : x # "")

RECURSIVE Flatten(_)
Flatten(ll) == IF ll = <<>> THEN <<>> ELSE Head(ll) \o Flatten(Tail(ll))

\* Lines 27 and 34: data.get("header", {}) or {} is a dict with a key in it.
HeaderPresent(h) ==
    /\ h.st = "dict"
    /\ \/ h.date.st # "absent" \/ h.time.st # "absent"
       \/ h.attendees.st # "absent" \/ h.subject.st # "absent"

\* Lines 34-45.
HeaderLines(h) ==
    IF ~HeaderPresent(h) THEN <<>>
    ELSE (IF HasText(h.date) THEN <<Line(<<"**Date:** ", h.date.s>>)>> ELSE <<>>)
      \o (IF HasText(h.time) THEN <<Line(<<"**Time:** ", h.time.s>>)>> ELSE <<>>)
      \o (IF ItemsOf(h.attendees) # <<>>
          THEN <<<<"**Attendees:**">>>>
                \o [i \in 1..Len(h.attendees.items) |->
                        Line(<<"- ", h.attendees.items[i]>>)]
          ELSE <<>>)
      \o (IF HasText(h.subject)
          THEN <<<<>>, Line(<<"**Subject:** ", h.subject.s>>)>>
          ELSE <<>>)

\* A renderer that leaves a topic without a title unnamed.
TopicTitleBare(t, idx) == IF HasText(t.title) THEN <<t.title.s>> ELSE <<>>

\* Line 51: t.get("title") or f"Topic {idx}".
TopicTitle(t, idx) ==
    IF HasText(t.title) THEN <<t.title.s>> ELSE <<"Topic ">> \o Dec(idx)

\* Lines 51-61 for the idx-th topic.
TopicLines(t, idx) ==
    <<<<>>,
      Line(<<"## ">> \o Dec(idx) \o <<". ">> \o TopicTitle(t, idx)
            \o (IF HasText(t.time_range) THEN <<" (", t.time_range.s, ")">> ELSE <<>>))>>
    \o [i \in 1..Len(ItemsOf(t.bullets)) |-> Line(<<"- ", ItemsOf(t.bullets)[i]>>)]
    \o (IF HasText(t.conclusion)
        THEN <<<<>>, Line(<<"**Conclusion:** ", t.conclusion.s>>)>>
        ELSE <<>>)

\* Lines 47-61.
TopicsLines(topics) ==
    IF ItemsOf(topics) = <<>> THEN <<>>
    ELSE <<<<>>, <<"---">>>>
         \o Flatten([i \in 1..Len(topics.items) |-> TopicLines(topics.items[i], i)])

\* A renderer that leaves the deadline of an item out.
ItemLineNoDue(it) ==
    Line(<<"  - ", IF HasText(it.description) THEN it.description.s ELSE "">>)

\* Lines 72-77.
ItemLine(it) ==
    LET desc == IF HasText(it.description) THEN it.description.s ELSE ""
    IN IF HasText(it.deadline)
       THEN Line(<<"  - ", desc, " (due ", it.deadline.s, ")">>)
       ELSE Line(<<"  - ", desc>>)

\* Lines 68-77 for one owner group.
GroupLines(grp) ==
    <<Line(<<"- **", IF HasText(grp.owner) THEN grp.owner.s ELSE "Unassigned", "**">>)>>
    \o [i \in 1..Len(ItemsOf(grp.items)) |-> ItemLine(ItemsOf(grp.items)[i])]

\* Lines 64-77.
ActionLines(action_items) ==
    IF ItemsOf(action_items) = <<>> THEN <<>>
    ELSE <<<<>>, <<"## Action Items">>>>
         \o Flatten([i \in 1..Len(action_items.items) |-> GroupLines(action_items.items[i])])

\* Lines 79-83.
MetanoteLines(metanotes) ==
    IF ItemsOf(metanotes) = <<>> THEN <<>>
    ELSE <<<<>>, <<"## Metanotes">>>>
         \o [i \in 1..Len(metanotes.items) |-> Line(<<"- ", metanotes.items[i]>>)]

\* Where the code calls .get on an entry that is null: lines 51, 68 and 72
\* raise AttributeError.
HitsNull(data) ==
    \/ \E i \in 1..Len(ItemsOf(data.topics)) : data.topics.items[i].isnull
    \/ \E i \in 1..Len(ItemsOf(data.action_items)) :
        \/ data.action_items.items[i].isnull
        \/ \E j \in 1..Len(ItemsOf(data.action_items.items[i].items)) :
                data.action_items.items[i].items.items[j].isnull

\* A renderer that draws the rule under the title whether or not there are topics.
notes_always_ruled(data) ==
    IF HitsNull(data) THEN [ok |-> FALSE, lines |-> <<>>]
    ELSE [ok |-> TRUE,
          lines |-> <<<<"# Meeting Notes">>>> \o HeaderLines(data.header)
                        \o <<<<>>, <<"---">>>>
                        \o ActionLines(data.action_items)
                        \o MetanoteLines(data.metanotes)]

\* notes_json_to_markdown(data): [ok |-> FALSE] when it raises, else the lines
\* joined by "\n" at line 85.
notes_json_to_markdown(data) ==
    IF HitsNull(data) THEN [ok |-> FALSE, lines |-> <<>>]
    ELSE [ok |-> TRUE,
          lines |-> <<<<"# Meeting Notes">>>> \o HeaderLines(data.header)
                        \o TopicsLines(data.topics) \o ActionLines(data.action_items)
                        \o MetanoteLines(data.metanotes)]

\* The documents of the model.  A field may be missing, null, empty or filled.
Opts(x) == {AbsentStr, NullStr, Str(""), Str(x)}

ListsOf(pool) ==
    {AbsentList, NullList} \cup {List(l) : l \in UNION {[1..n -> pool] : n \in 0..MaxItems}}

FullItem ==
    [isnull |-> FALSE, description |-> Str("Send doc"), deadline |-> Str("2024-01-05")]

NullItem == [isnull |-> TRUE, description |-> AbsentStr, deadline |-> AbsentStr]

ItemPool ==
    {[FullItem EXCEPT !.description = d] : d \in Opts("Send doc")}
    \cup {[FullItem EXCEPT !.deadline = d] : d \in Opts("2024-01-05")}
    \cup {NullItem}

FullGroup == [isnull |-> FALSE, owner |-> Str("Bob"), items |-> List(<<FullItem>>)]

NullGroup == [isnull |-> TRUE, owner |-> AbsentStr, items |-> AbsentList]

GroupPool ==
    {[FullGroup EXCEPT !.owner = o] : o \in Opts("Bob")}
    \cup {[FullGroup EXCEPT !.items = l] : l \in ListsOf(ItemPool)}
    \cup {NullGroup}

FullTopic ==
    [isnull |-> FALSE, title |-> Str("Budget"), time_range |-> Str("09:00-09:10"),
     bullets |-> List(<<"b">>), conclusion |-> Str("Agreed")]

NullTopic ==
    [isnull |-> TRUE, title |-> AbsentStr, time_range |-> AbsentStr,
     bullets |-> AbsentList, conclusion |-> AbsentStr]

TopicPool ==
    {[FullTopic EXCEPT !.title = o] : o \in Opts("Budget")}
    \cup {[FullTopic EXCEPT !.time_range = o] : o \in Opts("09:00-09:10")}
    \cup {[FullTopic EXCEPT !.bullets = l] : l \in ListsOf({"b", ""})}
    \cup {[FullTopic EXCEPT !.conclusion = o] : o \in Opts("Agreed")}
    \cup {NullTopic}

FullHeader ==
    [st |-> "dict", date |-> Str("2024-01-01"), time |-> Str("09:00"),
     attendees |-> List(<<"Amy">>), subject |-> Str("Plan")]

\* {}: a dict without a key.
EmptyHeader ==
    [st |-> "dict", date |-> AbsentStr, time |-> AbsentStr, attendees |-> AbsentList,
     subject |-> AbsentStr]

HeaderPool ==
    {[EmptyHeader EXCEPT !.st = "absent"], [EmptyHeader EXCEPT !.st = "null"], EmptyHeader}
    \cup {[FullHeader EXCEPT !.date = o] : o \in Opts("2024-01-01")}
    \cup {[FullHeader EXCEPT !.time = o] : o \in Opts("09:00")}
    \cup {[FullHeader EXCEPT !.attendees = l] : l \in ListsOf({"Amy", ""})}
    \cup {[FullHeader EXCEPT !.subject = o] : o \in Opts("Plan")}
    \cup {[EmptyHeader EXCEPT !.date = o] : o \in Opts("2024-01-01")}

EmptyHeaders == {[EmptyHeader EXCEPT !.st = "absent"], [EmptyHeader EXCEPT !.st = "null"], EmptyHeader}

EmptyLists == {AbsentList, NullList, List(<<>>)}

Doc(h, t, a, m) == [header |-> h, topics |-> t, action_items |-> a, metanotes |-> m]

FullDoc == Doc(FullHeader, List(<<FullTopic>>), List(<<FullGroup>>), List(<<"m">>))

EmptyDoc == Doc(EmptyHeader, List(<<>>), List(<<>>), List(<<>>))

\* A dated document with two owner groups, the first with two items of which
\* the second has no deadline, and two topics of which the second has no title.
OrderDoc ==
    Doc(FullHeader,
        List(<<FullTopic, [FullTopic EXCEPT !.title = AbsentStr]>>),
        List(<<[FullGroup EXCEPT !.items =
                    List(<<FullItem,
                           [FullItem EXCEPT !.description = Str("Book room"),
                                            !.deadline = AbsentStr]>>)],
               [FullGroup EXCEPT !.owner = Str("Amy")]>>),
        List(<<>>))

\* One part takes every form of its pool while the others are all filled or
\* all empty; every way for all four to be missing, null or empty; and the
\* document with two groups.
Docs ==
    {OrderDoc} \cup
    {[d EXCEPT !.header = h] : d \in {FullDoc, EmptyDoc}, h \in HeaderPool}
    \cup {[d EXCEPT !.topics = l] : d \in {FullDoc, EmptyDoc}, l \in ListsOf(TopicPool)}
    \cup {[d EXCEPT !.action_items = l] : d \in {FullDoc, EmptyDoc}, l \in ListsOf(GroupPool)}
    \cup {[d EXCEPT !.metanotes = l] : d \in {FullDoc, EmptyDoc}, l \in ListsOf({"m", ""})}
    \cup {Doc(h, t, a, m) : h \in EmptyHeaders, t \in EmptyLists, a \in EmptyLists,
                            m \in EmptyLists}

IdleRender ==
    /\ r_pc = "idle"
    /\ r_data = EmptyDoc
    /\ r_result = <<>>

InitRender ==
    /\ r_pc = "call"
    /\ r_data \in Docs
    /\ r_result = <<>>

\* notes_json_to_markdown(data) runs and returns the text or raises.
Render ==
    /\ r_pc = "call"
    /\ LET r == notes_json_to_markdown(r_data)
       IN /\ r_pc' = IF r.ok THEN "returned" ELSE "raised"
          /\ r_result' = r.lines
    /\ UNCHANGED r_data
    /\ UNCHANGED <<cvars, ivars, tvars, svars, pvars, nvars, uvars>>

(***************************************************************************)
(* Notes adapter (ollama_api_notes, _extract_json) and the pipeline's      *)
(* lines behind it.  A text of the language model is a sequence of tokens: *)
(* "p" a word of prose, " " white space, "~~~" a code fence (with or       *)
(* without "json"), "{" and "}", "m" the members of an object, "7" a       *)
(* number.                                                                 *)
(***************************************************************************)
\* The longest response drawn token by token.
MaxTokens == 3

\* Line 106.
TokenCeiling == 128000

\* Line 114.
MinNumCtx == 8192

\* The lengths of prompt files and transcripts: totals on both sides of the
\* ceiling, which lies between 320002 and 320003 characters.
NotesLens ==
    {[transcript |-> t, template |-> 200, system |-> 100] :
        t \in {0, 319701, 319702, 319703, 319704, 319705, 400000}}

\* Lines 100-104: int((len(prompt) + len(system_prompt)) // 2.5), the prompt
\* being the template with the transcript put in.
ApproxTokens(lens) == (2 * (lens.template + lens.transcript + lens.system)) \div 5

\* A test of line 106 that lets the ceiling itself through no more.
OverCeilingStrict(approx) == approx >= TokenCeiling

\* Line 106.
OverCeiling(approx) == approx > TokenCeiling

\* Line 114.
NumCtx(approx) == IF approx * 4 > MinNumCtx THEN approx * 4 ELSE MinNumCtx

RespAlphabet == {"p", " ", "~~~", "{", "}", "7"}

\* The responses: every text of up to MaxTokens tokens, and some longer ones:
\* a fenced object, a fenced object inside prose, prose and an object inside
\* a fence, an object before a fence of prose.
RespTexts ==
    UNION {[1..n -> RespAlphabet] : n \in 0..MaxTokens}
    \cup { <<"~~~", "{", "}", "~~~">>,
           <<"p", "~~~", " ", "{", "m", "}", " ", "~~~", "p">>,
           <<"~~~", "p", "{", "}", "p", "~~~">>,
           <<"{", "}", "~~~", "p", "~~~">>,
           <<"p", " ", "{", " ", "m", " ", "}", " ", "p">> }

\* The thinking blocks: none, prose, an object, white space.
ThinkTexts == { <<>>, <<"p">>, <<"p", "{", "m", "}">>, <<" ">> }

NoValue == [kind |-> "none", filled |-> FALSE]

\* json.loads(text): [ok |-> FALSE] for JSONDecodeError, else the value: an
\* object with or without members, or a number.  White space around and
\* between the tokens is allowed.
JsonLoads(text) ==
    LET t == Strip(text)
        dense == SelectSeq(t, LAMBDA x : x # " ")
    IN IF dense = <<"{", "}">>
       THEN [ok |-> TRUE, value |-> [kind |-> "dict", filled |-> FALSE]]
       ELSE IF dense = <<"{", "m", "}">>
       THEN [ok |-> TRUE, value |-> [kind |-> "dict", filled |-> TRUE]]
       ELSE IF t # <<>> /\ \A i \in 1..Len(t) : t[i] = "7"
       THEN [ok |-> TRUE, value |-> [kind |-> "number", filled |-> FALSE]]
       ELSE [ok |-> FALSE, value |-> NoValue]

Fences(text) == {i \in 1..Len(text) : text[i] = "~~~"}

\* Lines 168-170: the first fence that has another behind it, the text between
\* the two, stripped.
Unfenced(text) ==
    IF Cardinality(Fences(text)) < 2 THEN text
    ELSE LET a == CHOOSE i \in Fences(text) : \A j \in Fences(text) : i <= j
             b == CHOOSE i \in Fences(text) \ {a} : \A j \in Fences(text) \ {a} : i <= j
         IN Strip(SubSeq(text, a + 1, b - 1))

\* Line 179: the first "{" to the last "}" behind it.
BraceBlock(text) ==
    LET opens == {i \in 1..Len(text) : text[i] = "{"}
        closes == {i \in 1..Len(text) : text[i] = "}"}
    IN IF opens = {} THEN <<>>
       ELSE LET a == CHOOSE i \in opens : \A j \in opens : i <= j
                after == {i \in closes : i > a}
            IN IF after = {} THEN <<>>
               ELSE SubSeq(text, a, CHOOSE i \in after : \A j \in after : j <= i)

\* An extraction that looks for an object only.
extract_whole_only(text) ==
    IF text = <<>> \/ Strip(text) = <<>> THEN NoValue
    ELSE JsonLoads(Unfenced(text)).value

\* _extract_json(text), lines 162-186; NoValue for None.
extract_json(text) ==
    IF text = <<>> \/ Strip(text) = <<>> THEN NoValue
    ELSE LET t == Unfenced(text)
         IN IF JsonLoads(t).ok THEN JsonLoads(t).value
            ELSE IF BraceBlock(t) # <<>> /\ JsonLoads(BraceBlock(t)).ok
                 THEN JsonLoads(BraceBlock(t)).value
                 ELSE NoValue

\* The document an object of the model stands for.
DocOf(value) == IF value.filled THEN FullDoc ELSE EmptyDoc

NotSent == [called |-> FALSE, transcript |-> 0, num_ctx |-> 0]

IdleNotes ==
    /\ n_pc = "idle"
    /\ n_lens = [transcript |-> 0, template |-> 0, system |-> 0]
    /\ n_approx = 0
    /\ n_err = ""
    /\ n_reported = 0
    /\ n_sent = NotSent
    /\ n_response = <<>>
    /\ n_thinking = <<>>
    /\ n_source = ""
    /\ n_result = <<>>
    /\ n_wrote = {}

\* ollama_api_notes(transcript_path, model) up to line 109: the transcript and
\* the prompts are read, the tokens are estimated, and the call raises when
\* they exceed the ceiling.
NotesCall ==
    /\ n_pc = "idle"
    /\ \E lens \in NotesLens :
        /\ n_lens' = lens
        /\ n_approx' = ApproxTokens(lens)
        /\ IF OverCeiling(ApproxTokens(lens))
           THEN /\ n_pc' = "raised"
                /\ n_err' = "too long"
                /\ n_reported' = ApproxTokens(lens)
           ELSE /\ n_pc' = "generate"
                /\ UNCHANGED <<n_err, n_reported>>
    /\ UNCHANGED <<n_sent, n_response, n_thinking, n_source, n_result, n_wrote>>
    /\ UNCHANGED <<cvars, ivars, tvars, svars, pvars, rvars, uvars>>

\* Lines 114-130: generate is called with the prompt, which holds the whole
\* transcript, and raises or answers; the thinking block, or a fixed sentence
\* for none, is written to the thought-process file.
NotesGenerate ==
    /\ n_pc = "generate"
    /\ n_sent' = [called |-> TRUE, transcript |-> n_lens.transcript,
                  num_ctx |-> NumCtx(n_approx)]
    /\ \/ /\ n_pc' = "raised"
          /\ n_err' = "generate"
          /\ UNCHANGED <<n_response, n_thinking, n_wrote>>
       \/ /\ n_response' \in RespTexts
          /\ n_thinking' \in ThinkTexts
          /\ n_wrote' = n_wrote \cup {"thought"}
          /\ n_pc' = "parse"
          /\ UNCHANGED n_err
    /\ UNCHANGED <<n_lens, n_approx, n_reported, n_source, n_result>>
    /\ UNCHANGED <<cvars, ivars, tvars, svars, pvars, rvars, uvars>>

\* Lines 142-159: the response is searched for JSON, then the thinking block
\* when the response gave None and there is a thinking block; None raises
\* ValueError, and notes_json_to_markdown raises AttributeError on a value
\* that is not an object.
NotesParse ==
    /\ n_pc = "parse"
    /\ LET first == extract_json(n_response)
           second == first = NoValue /\ n_thinking # <<>>
           resp_json == IF second THEN extract_json(n_thinking) ELSE first
       IN IF resp_json = NoValue
          THEN /\ n_pc' = "raised"
               /\ n_err' = "no json"
               /\ UNCHANGED <<n_source, n_result>>
          ELSE IF resp_json.kind # "dict"
          THEN /\ n_pc' = "raised"
               /\ n_err' = "not a document"
               /\ UNCHANGED <<n_source, n_result>>
          ELSE /\ n_pc' = "returned"
               /\ n_source' = IF second THEN "thinking" ELSE "response"
               /\ n_result' = notes_json_to_markdown(DocOf(resp_json)).lines
               /\ UNCHANGED n_err
    /\ UNCHANGED <<n_lens, n_approx, n_reported, n_sent, n_response, n_thinking, n_wrote>>
    /\ UNCHANGED <<cvars, ivars, tvars, svars, pvars, rvars, uvars>>

\* Lines 147-149 of the pipeline: the Markdown returned is written to the
\* notes file.  An error of the adapter ended the run before.
NotesWrite ==
    /\ n_pc = "returned"
    /\ n_wrote' = n_wrote \cup {"notes"}
    /\ n_pc' = "written"
    /\ UNCHANGED <<n_lens, n_approx, n_err, n_reported, n_sent, n_response, n_thinking,
                   n_source, n_result>>
    /\ UNCHANGED <<cvars, ivars, tvars, svars, pvars, rvars, uvars>>

NextNotes == NotesCall \/ NotesGenerate \/ NotesParse \/ NotesWrite

(***************************************************************************)
(* Argument validation (validate_args) and the pipeline's choice of the    *)
(* meeting start (lines 69-78).  The texts of --start-time and of the      *)
(* folder's base name are sequences of characters.                         *)
(***************************************************************************)
IsLeap(y) == (y % 4 = 0 /\ y % 100 # 0) \/ y % 400 = 0

DaysInMonth(y, m) ==
    IF m = 2 THEN (IF IsLeap(y) THEN 29 ELSE 28)
    ELSE IF m \in {4, 6, 9, 11} THEN 30 ELSE 31

\* The number of the day y-m-d, day 0 being 1970-01-01.
DaysFromCivil(y, m, d) ==
    LET yy == IF m <= 2 THEN y - 1 ELSE y
        era == yy \div 400
        yoe == yy - era * 400
        doy == (153 * (IF m > 2 THEN m - 3 ELSE m + 9) + 2) \div 5 + d - 1
        doe == yoe * 365 + yoe \div 4 - yoe \div 100 + doy
    IN era * 146097 + doe - 719468

\* The number that the digits s[i..j] spell.
RECURSIVE NumberAt(_, _, _)
NumberAt(s, i, j) ==
    IF j < i THEN 0 ELSE 10 * NumberAt(s, i, j - 1) + DigitVal(s[j])

DigitsAt(s, i, n) == i + n - 1 <= Len(s) /\ \A k \in i..(i + n - 1) : s[k] \in Digits

CharAt(s, i, c) == i <= Len(s) /\ s[i] = c

\* \d{4}-\d{2}-\d{2} at position i.
DatePattern(s, i) ==
    /\ DigitsAt(s, i, 4) /\ CharAt(s, i + 4, "-")
    /\ DigitsAt(s, i + 5, 2) /\ CharAt(s, i + 7, "-")
    /\ DigitsAt(s, i + 8, 2)

\* \d{2}<sep>\d{2}<sep>\d{2} at position i.
ClockPattern(s, i, sep) ==
    /\ DigitsAt(s, i, 2) /\ CharAt(s, i + 2, sep)
    /\ DigitsAt(s, i + 3, 2) /\ CharAt(s, i + 5, sep)
    /\ DigitsAt(s, i + 6, 2)

\* The length of the run of white space that starts at position i.
RECURSIVE SpaceRun(_, _)
SpaceRun(s, i) ==
    IF i <= Len(s) /\ s[i] \in Whitespace THEN 1 + SpaceRun(s, i + 1) ELSE 0

\* datetime(y, m, d, h, mi, sec): the instant, or ValueError for a field out
\* of range.
MakeDatetime(y, m, d, h, mi, sec) ==
    IF /\ y >= 1 /\ m \in 1..12 /\ d >= 1 /\ d <= DaysInMonth(y, m)
       /\ h <= 23 /\ mi <= 59 /\ sec <= 59
    THEN [ok |-> TRUE, v |-> Dt(DaysFromCivil(y, m, d) * SecondsPerDay + h * 3600 + mi * 60 + sec)]
    ELSE [ok |-> FALSE, v |-> NoTime]

\* The date at s[i..i+9] with the clock at s[j..j+7].
StampAt(s, i, j) ==
    MakeDatetime(NumberAt(s, i, i + 3), NumberAt(s, i + 5, i + 6), NumberAt(s, i + 8, i + 9),
                 NumberAt(s, j, j + 1), NumberAt(s, j + 3, j + 4), NumberAt(s, j + 6, j + 7))

\* datetime.fromisoformat(s) for "YYYY-MM-DD" and for "YYYY-MM-DD?HH:MM:SS"
\* with any one character between the two; any other text of the model raises
\* ValueError.
fromisoformat(s) ==
    IF Len(s) = 10 /\ DatePattern(s, 1)
    THEN MakeDatetime(NumberAt(s, 1, 4), NumberAt(s, 6, 7), NumberAt(s, 9, 10), 0, 0, 0)
    ELSE IF Len(s) = 19 /\ DatePattern(s, 1) /\ ClockPattern(s, 12, ":")
    THEN StampAt(s, 1, 12)
    ELSE [ok |-> FALSE, v |-> NoTime]

\* get_meeting_start_time_from_folder_name (lines 70-99): re.match of
\* (\d{4}-\d{2}-\d{2})\s+(\d{2}\.\d{2}\.\d{2})\s+(.*) at the start of the base
\* name, then strptime with "%Y-%m-%d %H.%M.%S"; None when the name does not
\* match or strptime raises ValueError.
get_meeting_start_time_from_folder_name(name) ==
    LET gap == SpaceRun(name, 11)
        clock == 11 + gap
    IN IF /\ DatePattern(name, 1)
          /\ gap >= 1
          /\ ClockPattern(name, clock, ".")
          /\ SpaceRun(name, clock + 8) >= 1
          /\ StampAt(name, 1, clock).ok
       THEN StampAt(name, 1, clock).v
       ELSE NoTime

\* A validation that reads the folder name before the --start-time argument.
validate_start_folder_first(arg, folder) ==
    LET named == IF folder.given
                 THEN get_meeting_start_time_from_folder_name(folder.name) ELSE NoTime
    IN IF Truthy(named) THEN [ok |-> TRUE, start |-> named, consulted |-> TRUE]
       ELSE IF arg.given /\ arg.s # <<>>
       THEN [ok |-> fromisoformat(arg.s).ok, start |-> fromisoformat(arg.s).v,
             consulted |-> folder.given]
       ELSE [ok |-> TRUE, start |-> NoTime, consulted |-> folder.given]

\* Lines 12-32 of validate_args: args.start_time from the argument when it is
\* a non-empty text (ValueError when it is no ISO text), else from the folder
\* name when a folder was given, else None.
validate_start(arg, folder) ==
    IF arg.given /\ arg.s # <<>>
    THEN [ok |-> fromisoformat(arg.s).ok, start |-> fromisoformat(arg.s).v,
          consulted |-> FALSE]
    ELSE IF folder.given
    THEN [ok |-> TRUE, start |-> get_meeting_start_time_from_folder_name(folder.name),
          consulted |-> TRUE]
    ELSE [ok |-> TRUE, start |-> NoTime, consulted |-> FALSE]

\* "YYYY-MM-DD" and "HH<sep>MM<sep>SS" written from their numbers.
DateText(y, m, d) == Pad4(y) \o <<"-">> \o Pad2(m) \o <<"-">> \o Pad2(d)

ClockText3(h, mi, sec, sep) == Pad2(h) \o <<sep>> \o Pad2(mi) \o <<sep>> \o Pad2(sec)

Zoom == <<" ", "Z", "o", "o", "m">>

\* The base names of the meeting folders: Zoom's layout, with one and with
\* two blanks, on a leap day, on the placeholder's own instant; dates and
\* clocks out of range; a name that ends with the clock; names with a prefix,
\* with colons, without a date.
FolderNames ==
    { DateText(2024, 3, 5) \o <<" ">> \o ClockText3(14, 30, 0, ".") \o Zoom,
      DateText(2024, 2, 29) \o <<" ", " ">> \o ClockText3(23, 59, 59, ".") \o Zoom,
      DateText(2020, 1, 1) \o <<" ">> \o ClockText3(0, 0, 0, ".") \o Zoom,
      DateText(2023, 2, 29) \o <<" ">> \o ClockText3(14, 30, 0, ".") \o Zoom,
      DateText(2024, 13, 5) \o <<" ">> \o ClockText3(14, 30, 0, ".") \o Zoom,
      DateText(2024, 3, 5) \o <<" ">> \o ClockText3(24, 0, 0, ".") \o Zoom,
      DateText(2024, 3, 5) \o <<" ">> \o ClockText3(14, 30, 60, ".") \o Zoom,
      DateText(0, 1, 1) \o <<" ">> \o ClockText3(14, 30, 0, ".") \o Zoom,
      DateText(2024, 3, 5) \o <<" ">> \o ClockText3(14, 30, 0, "."),
      <<"x">> \o DateText(2024, 3, 5) \o <<" ">> \o ClockText3(14, 30, 0, ".") \o Zoom,
      DateText(2024, 3, 5) \o <<" ">> \o ClockText3(14, 30, 0, ":") \o Zoom,
      DateText(2024, 3, 5) \o ClockText3(14, 30, 0, ".") \o Zoom,
      Tail(Zoom) }

SetupFolders ==
    {[given |-> FALSE, name |-> <<>>]} \cup {[given |-> TRUE, name |-> n] : n \in FolderNames}

\* The texts of --start-time: none, the empty text, the two layouts the help
\* text names, a date alone, a month out of range, and no ISO text at all.
SetupArgs ==
    {[given |-> FALSE, s |-> <<>>], [given |-> TRUE, s |-> <<>>]}
    \cup {[given |-> TRUE, s |-> t] : t \in
            { DateText(2023, 1, 1) \o <<" ">> \o ClockText3(10, 0, 0, ":"),
              DateText(2023, 1, 1) \o <<"T">> \o ClockText3(10, 0, 0, ":"),
              DateText(2024, 3, 5),
              DateText(2024, 13, 5),
              <<"9", "a", "m">> }}

IdleSetup ==
    /\ u_pc = "idle"
    /\ u_arg = [given |-> FALSE, s |-> <<>>]
    /\ u_folder = [given |-> FALSE, name |-> <<>>]
    /\ u_start = NoTime
    /\ u_anchor = NoTime
    /\ u_consulted = FALSE

InitSetup ==
    /\ u_pc = "call"
    /\ u_arg \in SetupArgs
    /\ u_folder \in SetupFolders
    /\ u_start = NoTime
    /\ u_anchor = NoTime
    /\ u_consulted = FALSE

\* validate_args: fromisoformat raises, or parser.error exits (the folder is
\* no directory, line 21; the ASR model or the ollama flag is not valid, lines
\* 55-65), or args comes back with start_time set.
SetupValidate ==
    /\ u_pc = "call"
    /\ LET r == validate_start(u_arg, u_folder)
       IN IF ~r.ok
          THEN /\ u_pc' = "raised"
               /\ UNCHANGED <<u_start, u_consulted>>
          ELSE \/ \E isdir \in BOOLEAN :
                    /\ u_folder.given
                    /\ IF isdir
                       THEN /\ u_pc' = "validated"
                            /\ u_start' = r.start
                            /\ u_consulted' = r.consulted
                       ELSE /\ u_pc' = "exit"
                            /\ UNCHANGED <<u_start, u_consulted>>
               \/ /\ ~u_folder.given
                  /\ u_pc' = "validated"
                  /\ u_start' = r.start
                  /\ u_consulted' = r.consulted
               \/ /\ u_pc' = "exit"
                  /\ u_start' = r.start
                  /\ u_consulted' = r.consulted
    /\ UNCHANGED <<u_arg, u_folder, u_anchor>>
    /\ UNCHANGED <<cvars, ivars, tvars, svars, pvars, rvars, nvars>>

\* Lines 69-78 of the pipeline.
SetupAnchor ==
    /\ u_pc = "validated"
    /\ u_pc' = "anchored"
    /\ u_anchor' = MeetingStart(u_start)
    /\ UNCHANGED <<u_arg, u_folder, u_start, u_consulted>>
    /\ UNCHANGED <<cvars, ivars, tvars, svars, pvars, rvars, nvars>>

NextSetup == SetupValidate \/ SetupAnchor

(***************************************************************************)
(* Specifications: one per component, the others at rest.                  *)
(***************************************************************************)
\* The later components at rest.
IdleLater == IdleSave /\ IdlePipeline /\ IdleRender /\ IdleNotes /\ IdleSetup

InitSpecInterleave == InitInterleave /\ InitCombine /\ IdleTranscribe /\ IdleLater

SpecInterleave == InitSpecInterleave /\ [][Interleave]_vars

InitSpecCombine == InitCombine /\ IdleInterleave /\ IdleTranscribe /\ IdleLater

SpecCombine == InitSpecCombine /\ [][NextCombine]_vars

InitSpecTranscribe == InitCombine /\ IdleInterleave /\ IdleTranscribe /\ IdleLater

SpecTranscribe == InitSpecTranscribe /\ [][NextTranscribe]_vars

InitSpecSave ==
    InitCombine /\ IdleInterleave /\ IdleTranscribe /\ InitSave /\ IdlePipeline /\ IdleRender
    /\ IdleNotes /\ IdleSetup

SpecSave == InitSpecSave /\ [][NextSave]_vars

InitSpecPipeline ==
    InitCombine /\ IdleInterleave /\ IdleTranscribe /\ IdleSave /\ InitPipeline /\ IdleRender
    /\ IdleNotes /\ IdleSetup

SpecPipeline == InitSpecPipeline /\ [][NextPipeline]_vars

InitSpecRender ==
    InitCombine /\ IdleInterleave /\ IdleTranscribe /\ IdleSave /\ IdlePipeline /\ InitRender
    /\ IdleNotes /\ IdleSetup

SpecRender == InitSpecRender /\ [][Render]_vars

InitSpecNotes ==
    InitCombine /\ IdleInterleave /\ IdleTranscribe /\ IdleSave /\ IdlePipeline /\ IdleRender
    /\ IdleNotes /\ IdleSetup

SpecNotes == InitSpecNotes /\ [][NextNotes]_vars

InitSpecSetup ==
    InitCombine /\ IdleInterleave /\ IdleTranscribe /\ IdleSave /\ IdlePipeline /\ IdleRender
    /\ IdleNotes /\ InitSetup

SpecSetup == InitSpecSetup /\ [][NextSetup]_vars

(***************************************************************************)
(* Claims about the interleaver.                                           *)
(***************************************************************************)
Count(s, x) == Cardinality({i \in 1..Len(s) : s[i] = x})

RECURSIVE SumOver(_, _)
SumOver(f, S) ==
    IF S = {} THEN 0
    ELSE LET e == CHOOSE e \in S : TRUE IN f[e] + SumOver(f, S \ {e})

\* How often segment x of speaker sp occurs in the input dict d.
InputCount(d, sp, x) ==
    SumOver([i \in 1..Len(d) |->
                IF d[i].k = sp
                THEN Cardinality({j \in 1..Len(d[i].v) : d[i].v[j] = x})
                ELSE 0],
            1..Len(d))

Relabel(x, sp) == [start |-> x.start, end |-> x.end, text |-> x.text, speaker |-> sp]

\* C1: the result of interleave_transcripts has non-decreasing starts and is a
\* permutation of the flattened input: every input segment occurs exactly as
\* often as in the input, start, end and text unchanged, nothing merged or
\* dropped, and an input without segments gives the empty sequence.
C1_InterleaveSortedPermutation ==
    i_pc = "done" =>
        /\ \A i \in 1..Len(interleaved) - 1 :
                interleaved[i].start.t <= interleaved[i + 1].start.t
        /\ \A sp \in SpeakerLabels : \A x \in SegPool :
                Count(interleaved, Relabel(x, sp)) = InputCount(transcriptions, sp, x)
        /\ \A i \in 1..Len(interleaved) :
                /\ interleaved[i].speaker \in DictKeys(transcriptions)
                /\ \E x \in SegPool : interleaved[i] = Relabel(x, interleaved[i].speaker)
        /\ (\A i \in 1..Len(transcriptions) : transcriptions[i].v = <<>>)
                => interleaved = <<>>

\* Two speakers said the same segment, one of them out of order: both copies
\* are in the result.
C1_Witness ==
    /\ i_pc = "done"
    /\ Len(transcriptions) = 2
    /\ \E x \in SegPool :
        /\ Count(transcriptions[1].v, x) = 1
        /\ Count(transcriptions[2].v, x) = 1
        /\ Count(interleaved, Relabel(x, "A")) = 1
        /\ Count(interleaved, Relabel(x, "B")) = 1
    /\ Len(transcriptions[1].v) = 2
    /\ transcriptions[1].v[1].start.t > transcriptions[1].v[2].start.t

SameStart(s, t) == SelectSeq(s, LAMBDA x : x.start.t = t)

\* C2: segments with the same start are in the result in flattening order:
\* the input dict's iteration order first, the position in a speaker's list
\* second.
C2_InterleaveStable ==
    i_pc = "done" =>
        \A t \in {x.start.t : x \in SegPool} :
            SameStart(interleaved, t) = SameStart(all_segments(transcriptions), t)

\* Speaker B is iterated first and both speakers have a segment starting at 2:
\* B's is first in the result.
C2_Witness ==
    /\ i_pc = "done"
    /\ Len(transcriptions) = 2
    /\ transcriptions[1].k = "B"
    /\ \E i \in 1..Len(interleaved) - 1 :
        /\ interleaved[i].start = interleaved[i + 1].start
        /\ interleaved[i].speaker = "B"
        /\ interleaved[i + 1].speaker = "A"
        /\ interleaved[i].text # interleaved[i + 1].text

(***************************************************************************)
(* Claims about the file grouping.                                         *)
(***************************************************************************)
\* The files of the run's listing.
Input == Elems(wav_list)

\* A base name of the required shape, read off the name itself: "audio", a
\* speaker name, eleven digits and ".wav".
WellNamed(f) ==
    \E n \in 1..Len(f) :
        /\ Len(f) >= 5 + n + 11 + 4
        /\ \A i \in 1..5 : Lower(f[i]) = AudioPrefix[i]
        /\ \A i \in (5 + n + 1)..(5 + n + 11) : f[i] \in Digits
        /\ \A i \in 1..4 : Lower(f[5 + n + 11 + i]) = WavSuffix[i]

\* The speaker name and part number a well-named file of the pool carries.
SpeakerOf(f) == SubSeq(f, 6, Len(f) - 15)

PartNumberOf(f) == DigitVal(f[Len(f) - 13])

PartsOf(sp) == {f \in Input : SpeakerOf(f) = sp}

OnePartEach ==
    \A f \in Input : WellNamed(f) /\ Cardinality(PartsOf(SpeakerOf(f))) = 1

IsCombinedPath(path) == path.dir = "Audio Record/Combined"

\* C3: when every speaker of the listing has exactly one part file, the run
\* returns a mapping with one entry per speaker, the speaker's original path,
\* and runs neither ffmpeg concat nor cp and creates no Combined directory.
C3_FastPathReturnsOriginals ==
    (c_pc # "idle" /\ OnePartEach) =>
        /\ c_pc = "returned"
        /\ Len(c_result) = Cardinality(Input)
        /\ DictKeys(c_result) = {SpeakerOf(f) : f \in Input}
        /\ \A f \in Input : DictGet(c_result, SpeakerOf(f)) = OriginalPath(f)
        /\ joins = <<>>
        /\ copies = <<>>
        /\ combine_folder = dir_at_call

\* Two speakers with one file each, in a folder without a Combined directory.
C3_Witness ==
    /\ c_pc = "returned"
    /\ OnePartEach
    /\ Cardinality(Input) = 2
    /\ ~combine_folder
    /\ Len(c_result) = 2

\* C4: every list of files handed to ffmpeg concat is in ascending part
\* number, and holds files of the listing, whatever order they were listed in.
C4_JoinOrderAscending ==
    \A i \in 1..Len(joins) :
        /\ \A a, b \in 1..Len(joins[i]) :
                a < b => PartNumberOf(joins[i][a]) < PartNumberOf(joins[i][b])
        /\ Elems(joins[i]) \subseteq Input

\* Two parts whose names sort against their part numbers, listed in an order
\* line 341 had to change, were joined by part number.
C4_Witness ==
    /\ resorted
    /\ \E i \in 1..Len(joins) :
        /\ Len(joins[i]) = 2
        /\ StrLess(joins[i][2], joins[i][1])
        /\ PartNumberOf(joins[i][1]) < PartNumberOf(joins[i][2])

\* C5: no list handed to ffmpeg concat belongs to a speaker that has exactly
\* one part file in the listing.
C5_SinglePartNeverJoined ==
    \A i \in 1..Len(joins) : Cardinality(PartsOf(SpeakerOf(joins[i][1]))) # 1

\* C6: a run on the files of the run before it, which returned, runs neither
\* ffmpeg concat nor cp, does not raise, and returns the same mapping.
C6_RerunIdempotent ==
    rerun =>
        /\ joins = <<>>
        /\ copies = <<>>
        /\ c_pc # "raised"
        /\ c_pc = "returned" => c_result = first_result

\* A rerun that returned the combined paths of two speakers.
C6_Witness ==
    /\ rerun
    /\ c_pc = "returned"
    /\ Len(c_result) = 2
    /\ \A i \in 1..Len(c_result) : IsCombinedPath(c_result[i].v)

\* C7: a failure of the joiner ends the run without a mapping, and a combined
\* path a run returns holds the output of an ffmpeg concat that ran to its end.
C7_ReturnedCombinedIsComplete ==
    /\ c_pc = "raised" => c_result = <<>>
    /\ c_pc = "returned" =>
            \A i \in 1..Len(c_result) :
                IsCombinedPath(c_result[i].v) =>
                    /\ combined[c_result[i].k].tool = "ffmpeg"
                    /\ combined[c_result[i].k].complete

\* C8: a listing with a file that is not well named makes the run raise,
\* naming such a file of the listing, with no Combined directory created, no
\* tool run and no mapping returned.
C8_BadNameRaisesFirst ==
    (c_pc # "idle" /\ \E f \in Input : ~WellNamed(f)) =>
        /\ c_pc = "raised"
        /\ c_err \in Input
        /\ ~WellNamed(c_err)
        /\ combine_folder = dir_at_call
        /\ joins = <<>>
        /\ copies = <<>>
        /\ c_result = <<>>

\* The bad file was listed before two parts of one speaker, which alone
\* would have been combined.
C8_Witness ==
    /\ c_pc = "raised"
    /\ c_err # <<>>
    /\ resorted
    /\ wav_list[Len(wav_list)] = c_err
    /\ \E f, g \in Input : f # g /\ WellNamed(f) /\ WellNamed(g) /\ SpeakerOf(f) = SpeakerOf(g)
                              /\ PartNumberOf(f) # PartNumberOf(g)
    /\ ~combine_folder

(***************************************************************************)
(* Claims about the transcription adapter.                                 *)
(***************************************************************************)
\* C9: a speaker whose file has no detected speech gets the empty list under
\* its key, the recognition model is not run on its file, no error is raised
\* at it, and the returned dict has the keys of the argument.
C9_SilentFileEmptyList ==
    /\ \A sp \in silent :
        /\ sp \in DictKeys(t_transcriptions)
        /\ DictGet(t_transcriptions, sp) = <<>>
        /\ \A i \in 1..Len(asr_calls) : asr_calls[i] # DictGet(wav_files, sp)
        /\ t_pc = "raised" => wav_files[t_idx].k # sp
    /\ t_pc = "returned" =>
        /\ DictKeys(t_result) = DictKeys(wav_files)
        /\ Len(t_result) = Len(wav_files)
        /\ \A sp \in silent : DictGet(t_result, sp) = <<>>

\* The first of two speakers was silent, the second spoke.
C9_Witness ==
    /\ t_pc = "returned"
    /\ Len(wav_files) = 2
    /\ silent = {wav_files[1].k}
    /\ Len(asr_calls) = 1
    /\ DictGet(t_result, wav_files[2].k) # <<>>

\* C10: called without an anchor, the adapter returns every segment with the
\* start and end offsets of the model, as numbers of seconds.
C10_NoAnchorKeepsOffsets ==
    (t_pc = "returned" /\ meeting_start_arg = NoTime) =>
        \A sp \in DictKeys(raw) :
            \A i \in 1..Len(DictGet(raw, sp)) :
                /\ DictGet(t_result, sp)[i].start = Num(DictGet(raw, sp)[i].start)
                /\ DictGet(t_result, sp)[i].end = Num(DictGet(raw, sp)[i].end)

(***************************************************************************)
(* Claims about the transcript serializer.                                 *)
(***************************************************************************)
\* The clock of an instant, as the claim words it: two digits each for the
\* hour, the minute and the second of the day.
ClockText(t) ==
    LET sod == t % SecondsPerDay
        two(n) == <<DigitChar(n \div 10), DigitChar(n % 10)>>
    IN two(sod \div 3600) \o <<":">> \o two((sod % 3600) \div 60) \o <<":">> \o two(sod % 60)

\* Whether a line is "[<start> - <end>] (<speaker>) <text>" for a segment,
\* an absolute time shown as its clock, a plain offset as the code shows it.
IsLineOf(line, seg) ==
    LET shown(v) == IF v.kind = "dt" THEN ClockText(v.t) ELSE str_timedelta(v.t)
    IN line = <<"[">> \o shown(seg.start) \o <<" - ">> \o shown(seg.end)
                \o <<"] (">> \o seg.speaker \o <<") ">> \o seg.text

\* Whether a line is the header "Meeting Start Date and Time: YYYY-MM-DD HH:MM:SS":
\* the fixed words, ten characters of date, a blank and the clock.
IsHeaderOf(line, start) ==
    /\ Len(line) = 1 + 10 + 1 + 8
    /\ line[1] = "Meeting Start Date and Time: "
    /\ \A i \in {2, 3, 4, 5, 7, 8, 10, 11} : line[i] \in Digits
    /\ line[6] = "-" /\ line[9] = "-" /\ line[12] = " "
    /\ SubSeq(line, 13, 20) = ClockText(start.t)
    /\ SubSeq(line, 2, 11) = strftime_Ymd(start)

\* C13: a call of save_transcript_to_file that returns has written exactly
\* 1 + N lines: the header with the meeting start as YYYY-MM-DD HH:MM:SS, then
\* one line per segment, in the order of the argument, each
\* "[<start> - <end>] (<speaker>) <text>" with absolute times as HH:MM:SS.
C13_OneLinePerSegmentInOrder ==
    s_pc = "returned" =>
        /\ s_target.exists
        /\ Len(s_target.lines) = 1 + Len(s_segments)
        /\ IsHeaderOf(s_target.lines[1], s_start)
        /\ \A i \in 1..Len(s_segments) : IsLineOf(s_target.lines[i + 1], s_segments[i])

\* A list whose starts are not ascending was written, over an older file.
C13_Witness ==
    /\ s_pc = "returned"
    /\ Len(s_segments) = 2
    /\ s_segments[1].start.kind = "dt" /\ s_segments[2].start.kind = "dt"
    /\ s_segments[2].start.t < s_segments[1].start.t
    /\ s_before = OldTranscript
    /\ s_target.lines[1] =
            <<"Meeting Start Date and Time: ", "1", "9", "7", "0", "-", "0", "1", "-",
              "0", "4", " ", "0", "9", ":", "0", "0", ":", "0", "0">>
    /\ s_target.lines[3] =
            <<"[", "0", "9", ":", "0", "0", ":", "0", "2", " - ",
              "0", "9", ":", "0", "0", ":", "0", "3", "] (", "A", ") ">>

\* C14: after a call that failed, the target path holds the complete new
\* transcript or exactly what it held before the call.
C14_WriteAllOrNothing ==
    s_pc = "raised" =>
        \/ s_target = s_before
        \/ /\ Truthy(s_start)
           /\ s_target = File(TranscriptLines(s_segments, s_start))

(***************************************************************************)
(* Claims about the pipeline.                                              *)
(***************************************************************************)
\* Whether every segment of a dict of transcriptions is the raw segment of the
\* same speaker and position, moved by the anchor.
AnchoredTo(d, anchor) ==
    \A i \in 1..Len(d) :
        LET rawsegs == IF d[i].k \in DictKeys(p_raw) THEN DictGet(p_raw, d[i].k) ELSE <<>>
        IN /\ Len(d[i].v) = Len(rawsegs)
           /\ \A j \in 1..Len(rawsegs) :
                /\ d[i].v[j].start = Dt(anchor.t + rawsegs[j].start)
                /\ d[i].v[j].end = Dt(anchor.t + rawsegs[j].end)

\* C11: in a run, every segment of every speaker is its raw segment moved by
\* the one meeting start (start = anchor + raw start, end = anchor + raw end),
\* the transcript the run writes has that meeting start in its header line,
\* and the transcript and the notes are written under the names made from it
\* and under no other.
C11_OneAnchorPerRun ==
    LET anchor == IF p_start_arg = NoTime THEN Dt(18262 * SecondsPerDay) ELSE p_start_arg
        stamp == strftime_YmdHM(anchor)
        tname == <<"transcript_">> \o stamp \o <<".txt">>
        nname == <<"notes_">> \o stamp \o <<".md">>
    IN p_pc # "idle" =>
        /\ p_start = anchor
        /\ AnchoredTo(p_local, anchor)
        /\ AnchoredTo(p_transcriptions, anchor)
        /\ \A i \in 1..Len(p_interleaved) :
                \E j \in 1..Len(p_transcriptions) :
                    \E k \in 1..Len(p_transcriptions[j].v) :
                        p_interleaved[i] = p_transcriptions[j].v[k]
        /\ \A n \in TranscriptNames : p_transcript[n].exists => n = tname
        /\ "transcript" \in p_wrote =>
                /\ p_transcript[tname].exists
                /\ p_transcript[tname].lines # <<>> =>
                        IsHeaderOf(p_transcript[tname].lines[1], anchor)
        /\ p_notes \subseteq {nname}
        /\ "notes" \in p_wrote => nname \in p_notes

\* A run with a start time from the command line has transcribed two speakers
\* with speech and written the transcript and the notes.
C11_Witness ==
    /\ p_pc = "done"
    /\ p_start_arg # NoTime
    /\ Len(p_interleaved) = 4
    /\ "transcript" \in p_wrote
    /\ "notes" \in p_wrote
    /\ p_transcript[TranscriptName(p_start)].lines[1] =
            <<"Meeting Start Date and Time: ", "1", "9", "7", "0", "-", "0", "1", "-",
              "0", "4", " ", "0", "9", ":", "0", "0", ":", "0", "0">>

\* C12: when the transcription of a speaker's file fails, the run ends there:
\* no map of transcriptions is returned, not even of the speakers already
\* done, nothing is interleaved, no transcript is written, the summarizer is
\* not called and no notes are written in that run.
C12_TranscriptionFailureAborts ==
    p_err = "transcribe" =>
        /\ p_pc = "raised"
        /\ p_transcriptions = <<>>
        /\ p_local = <<>>
        /\ p_interleaved = <<>>
        /\ "transcript" \notin p_wrote
        /\ ~p_llm.called
        /\ "notes" \notin p_wrote

\* The model failed on the second speaker after the first was transcribed.
C12_Witness ==
    /\ p_err = "transcribe"
    /\ p_idx = 2
    /\ Len(p_raw) = 1
    /\ p_pc = "raised"

\* C15: whatever runs came before, the transcript file a run gives to the
\* summarizer, and makes its notes from, was last written by a serialization
\* that returned, after a transcription that returned.
C15_NotesOnlyFromCompleteTranscript ==
    p_llm.called =>
        /\ p_llm.input.exists
        /\ TranscriptName(p_start) \in p_complete

\* C16: a run without overwrite, after a run on the same folders that came
\* past conversion, combination and the transcript, hands no file to the
\* transcoder, runs no joiner and no recognition model and leaves the
\* transcript alone; the summarizer reads the transcript that was there, and
\* the notes are written from it.
C16_RerunSkipsCompletedWork ==
    (p_prev /\ ~p_overwrite /\ p_pc # "idle") =>
        /\ p_transcodes = {}
        /\ p_joins = {}
        /\ p_asr = {}
        /\ p_pc \notin {"transcribe", "interleave", "save"}
        /\ p_wrote \subseteq {"thought", "notes"}
        /\ p_llm.called =>
                /\ p_llm.input = p_transcript[TranscriptName(p_start)]
                /\ p_llm.input.exists
        /\ p_pc \in {"write", "done"} => p_llm.called
        /\ p_pc = "done" => "notes" \in p_wrote

\* A second run on a meeting with a master recording and a speaker in two
\* parts has written its notes.
C16_Witness ==
    /\ p_prev
    /\ ~p_overwrite
    /\ p_pc = "done"
    /\ p_folder.masters # {}
    /\ Cardinality(p_folder.m4a) = 3
    /\ p_combined # {}

\* C17: when a run ends because "Audio Record" is missing, holds no audio
\* file, or holds a file with a bad name, it has handed no file to the
\* transcoder and has written nothing.
C17_InputErrorBeforeAnyProcessing ==
    p_err \in {"no Audio Record", "no audio files", "bad file name"} =>
        /\ p_transcodes = {}
        /\ p_wrote = {}

(***************************************************************************)
(* Claims about the notes renderer.                                        *)
(***************************************************************************)
\* A document of the four-part shape: every entry of topics, of action_items
\* and of a group's items is an object; any part and any field of it may be
\* missing, null or empty.
FourPartShape(data) ==
    /\ \A i \in 1..Len(data.topics.items) : ~data.topics.items[i].isnull
    /\ \A i \in 1..Len(data.action_items.items) :
        /\ ~data.action_items.items[i].isnull
        /\ \A j \in 1..Len(data.action_items.items[i].items.items) :
                ~data.action_items.items[i].items.items[j].isnull

\* A part that is missing, null or empty.
EmptyPart(l) == l.st \in {"absent", "null"} \/ l.items = <<>>

AllPartsEmpty(data) ==
    /\ data.header \in EmptyHeaders
    /\ EmptyPart(data.topics)
    /\ EmptyPart(data.action_items)
    /\ EmptyPart(data.metanotes)

\* C20: for a document of the four-part shape, whatever is missing, null or
\* empty in it, notes_json_to_markdown returns, and the first line of its text
\* is "# Meeting Notes"; when all four parts are empty or absent the text is
\* that line and nothing else.
C20_RendererTotal ==
    (r_pc # "call" /\ r_pc # "idle" /\ FourPartShape(r_data)) =>
        /\ r_pc = "returned"
        /\ Len(r_result) >= 1
        /\ r_result[1] = <<"# Meeting Notes">>
        /\ AllPartsEmpty(r_data) => r_result = <<<<"# Meeting Notes">>>>

\* A document with a null header, null topics, no action_items key and an
\* empty metanotes list was rendered.
C20_Witness ==
    /\ r_pc = "returned"
    /\ r_data.header.st = "null"
    /\ r_data.topics.st = "null"
    /\ r_data.action_items.st = "absent"
    /\ r_data.metanotes = List(<<>>)
    /\ r_result = <<<<"# Meeting Notes">>>>

(***************************************************************************)
(* Claims about the notes adapter.                                         *)
(***************************************************************************)
\* C18: approx_tokens is floor((len(prompt) + len(system_prompt)) / 2.5); the
\* call raises, reporting approx_tokens, without calling the language model
\* and without writing a file, exactly when approx_tokens > 128000; at or
\* under the ceiling the language model is given the whole transcript.
C18_TokenCeiling ==
    LET n == (n_lens.template + n_lens.transcript) + n_lens.system
    IN n_pc # "idle" =>
        /\ 5 * n_approx <= 2 * n
        /\ 2 * n < 5 * (n_approx + 1)
        /\ (n_err = "too long") <=> (n_approx > 128000)
        /\ n_approx > 128000 =>
                /\ n_pc = "raised"
                /\ ~n_sent.called
                /\ n_wrote = {}
                /\ n_reported = n_approx
        /\ (n_approx <= 128000 /\ n_pc # "generate") =>
                /\ n_sent.called
                /\ n_sent.transcript = n_lens.transcript

\* 320003 characters, estimated at 128001 tokens, were refused.
C18_Witness ==
    /\ n_pc = "raised"
    /\ n_err = "too long"
    /\ n_lens.transcript + n_lens.template + n_lens.system = 320003
    /\ n_reported = 128001

\* What a text yields, as the claim words it: the whole text after a code
\* fence is stripped, else the {...} block inside it, else nothing.
Yields(text) ==
    LET t == Unfenced(text)
    IN IF JsonLoads(t).ok THEN JsonLoads(t).value
       ELSE IF JsonLoads(BraceBlock(t)).ok THEN JsonLoads(BraceBlock(t)).value
       ELSE NoValue

\* C19: once the answer is parsed, Markdown is returned only for a document
\* that was parsed: from the response when it yields one, from the thinking
\* block only when the response yields nothing and there is a thinking block;
\* when neither yields a document the call raises, and no notes file is
\* written after a call that raised.
C19_ParseOrderAndFailure ==
    /\ n_pc \in {"returned", "written"} =>
        \/ /\ n_source = "response"
           /\ Yields(n_response).kind = "dict"
           /\ n_result = notes_json_to_markdown(DocOf(Yields(n_response))).lines
        \/ /\ n_source = "thinking"
           /\ Yields(n_response) = NoValue
           /\ n_thinking # <<>>
           /\ Yields(n_thinking).kind = "dict"
           /\ n_result = notes_json_to_markdown(DocOf(Yields(n_thinking))).lines
    /\ (n_pc \in {"returned", "written"} /\ Yields(n_response).kind = "dict") =>
            n_source = "response"
    /\ (n_pc \in {"returned", "written", "raised"} /\ n_err \notin {"too long", "generate"}) =>
        /\ Yields(n_response).kind = "dict" => n_pc # "raised"
        /\ (Yields(n_response) = NoValue /\ n_thinking # <<>>
                /\ Yields(n_thinking).kind = "dict") => n_pc # "raised"
        /\ (Yields(n_response).kind # "dict"
                /\ (n_thinking = <<>> \/ Yields(n_thinking).kind # "dict")) => n_pc = "raised"
    /\ n_pc = "raised" => "notes" \notin n_wrote
    /\ "notes" \in n_wrote => n_pc = "written"

\* Notes were written from the thinking block after a response of prose.
C19_Witness ==
    /\ n_pc = "written"
    /\ n_source = "thinking"
    /\ n_response = <<"p">>
    /\ n_thinking = <<"p", "{", "m", "}">>

\* The lines of a text that hold the piece x.
LinesWith(text, x) == {k \in 1..Len(text) : \E p \in 1..Len(text[k]) : text[k][p] = x}

\* The groups all have an owner and the items all have a description: the
\* fields that the line patterns of the action items name.
OwnersAndDescriptions(data) ==
    \A i \in 1..Len(ItemsOf(data.action_items)) :
        LET grp == data.action_items.items[i]
        IN /\ ~grp.isnull
           /\ HasText(grp.owner)
           /\ \A j \in 1..Len(ItemsOf(grp.items)) :
                /\ ~grp.items.items[j].isnull
                /\ HasText(grp.items.items[j].description)

\* "- **<owner>**", then "  - <description> (due <deadline>)" or
\* "  - <description>" for each item of the group, in input order.
OwnerBlock(grp) ==
    <<<<"- **", grp.owner.s, "**">>>>
    \o [j \in 1..Len(ItemsOf(grp.items)) |->
            LET it == grp.items.items[j]
            IN IF it.deadline.st = "str" /\ it.deadline.s # ""
               THEN <<"  - ", it.description.s, " (due ", it.deadline.s, ")">>
               ELSE <<"  - ", it.description.s>>]

RECURSIVE OwnerBlocks(_)
OwnerBlocks(groups) ==
    IF groups = <<>> THEN <<>> ELSE OwnerBlock(Head(groups)) \o OwnerBlocks(Tail(groups))

\* C21: in the text that notes_json_to_markdown returns, a non-empty
\* header.date gives the line "**Date:** <date>"; non-empty action_items give
\* one line "## Action Items", followed at once, for each owner group in input
\* order, by "- **<owner>**" and one line per item in input order, with
\* " (due <deadline>)" behind the description exactly when the item has a
\* deadline.
C21_FieldMapping ==
    r_pc = "returned" =>
        /\ (r_data.header.st = "dict" /\ HasText(r_data.header.date)) =>
                \E k \in 1..Len(r_result) : r_result[k] = <<"**Date:** ", r_data.header.date.s>>
        /\ (ItemsOf(r_data.action_items) # <<>> /\ OwnersAndDescriptions(r_data)) =>
                LET block == OwnerBlocks(r_data.action_items.items)
                IN /\ Cardinality(LinesWith(r_result, "## Action Items")) = 1
                   /\ \A k \in LinesWith(r_result, "## Action Items") :
                        /\ r_result[k] = <<"## Action Items">>
                        /\ k + Len(block) <= Len(r_result)
                        /\ SubSeq(r_result, k + 1, k + Len(block)) = block
                        /\ ItemsOf(r_data.metanotes) = <<>> => k + Len(block) = Len(r_result)

\* The document dated 2024-01-01 with Bob's two items (one with, one without
\* a deadline) and Amy's one was rendered.
C21_Witness ==
    /\ r_pc = "returned"
    /\ r_data = OrderDoc
    /\ r_result[2] = <<"**Date:** ", "2024-01-01">>
    /\ \E k \in 1..(Len(r_result) - 5) :
            SubSeq(r_result, k, k + 5) =
                << <<"## Action Items">>,
                   <<"- **", "Bob", "**">>,
                   <<"  - ", "Send doc", " (due ", "2024-01-05", ")">>,
                   <<"  - ", "Book room">>,
                   <<"- **", "Amy", "**">>,
                   <<"  - ", "Send doc", " (due ", "2024-01-05", ")">> >>

\* The fixed pieces that introduce the optional text fields of the header.
FieldMarks(h) ==
    {<<"**Date:** ", h.date>>, <<"**Time:** ", h.time>>, <<"**Subject:** ", h.subject>>}

\* C22: in the rendered text a missing optional field gives no line and no
\* placeholder: no "**Date:** ", "**Time:** " or "**Subject:** " line without
\* that field, no "**Attendees:**" line without attendees, no "**Conclusion:** "
\* line in a document whose topics have no conclusion, no "Topic <n>" in place
\* of a missing title, no "Unassigned" in place of a missing owner, and no
\* item line for an item without a description.
C22_NoPlaceholder ==
    (r_pc = "returned" /\ r_data.header.st = "dict") =>
        /\ \A m \in FieldMarks(r_data.header) :
                ~HasText(m[2]) => LinesWith(r_result, m[1]) = {}
        /\ ItemsOf(r_data.header.attendees) = <<>> =>
                LinesWith(r_result, "**Attendees:**") = {}
        /\ (\A i \in 1..Len(ItemsOf(r_data.topics)) :
                ~HasText(r_data.topics.items[i].conclusion)) =>
                LinesWith(r_result, "**Conclusion:** ") = {}
        /\ (\A i \in 1..Len(ItemsOf(r_data.topics)) :
                ~HasText(r_data.topics.items[i].time_range)) =>
                LinesWith(r_result, " (") = {}
        /\ LinesWith(r_result, "Topic ") = {}
        /\ LinesWith(r_result, "Unassigned") = {}
        /\ Cardinality(LinesWith(r_result, "  - ")) =
                Cardinality({ij \in (1..MaxItems + 1) \X (1..MaxItems + 1) :
                    /\ ij[1] <= Len(ItemsOf(r_data.action_items))
                    /\ ij[2] <= Len(ItemsOf(r_data.action_items.items[ij[1]].items))
                    /\ HasText(r_data.action_items.items[ij[1]].items.items[ij[2]].description)})

(***************************************************************************)
(* Claims about the meeting start.                                         *)
(***************************************************************************)
\* A run of white space counts as one blank.
RECURSIVE Squeeze(_)
Squeeze(s) ==
    IF s = <<>> THEN <<>>
    ELSE IF Head(s) \in Whitespace /\ Len(s) >= 2 /\ s[2] \in Whitespace THEN Squeeze(Tail(s))
    ELSE <<Head(s)>> \o Squeeze(Tail(s))

IsPrefix(a, b) == Len(a) <= Len(b) /\ SubSeq(b, 1, Len(a)) = a

\* "HH.MM.SS" of an instant.
DotClock(dt) ==
    [i \in 1..8 |-> IF strftime_HMS(dt)[i] = ":" THEN "." ELSE strftime_HMS(dt)[i]]

\* The name reads "YYYY-MM-DD HH.MM.SS <rest>" with the date and time of dt.
NamedLike(name, dt) ==
    IsPrefix(strftime_Ymd(dt) \o <<" ">> \o DotClock(dt) \o <<" ">>, Squeeze(name))

\* The instants that the folder names of the model spell in that form:
\* 2024-03-05 14:30:00, 2024-02-29 23:59:59 and 2020-01-01 00:00:00.
NamedInstants ==
    {Dt(19787 * SecondsPerDay + 52200), Dt(19782 * SecondsPerDay + 86399),
     Dt(18262 * SecondsPerDay)}

\* The text of --start-time reads as the date and time of dt, a date alone
\* meaning midnight.
ShowsArg(dt, text) ==
    /\ dt.kind = "dt"
    /\ Len(text) \in {10, 19}
    /\ strftime_Ymd(dt) = SubSeq(text, 1, 10)
    /\ strftime_HMS(dt) = IF Len(text) = 10 THEN <<"0", "0", ":", "0", "0", ":", "0", "0">>
                          ELSE SubSeq(text, 12, 19)

C24_PhaseOrder ==
    /\ p_pc = "transcribe" =>
        /\ p_transcriptions = <<>>
        /\ p_interleaved = <<>>
        /\ "transcript" \notin p_wrote
        /\ ~p_llm.called
    /\ p_pc = "interleave" =>
        /\ [i \in 1..Len(p_transcriptions) |-> p_transcriptions[i].k] =
                [i \in 1..Len(p_wav_files) |-> p_wav_files[i].k]
        /\ p_asr \subseteq DictKeys(p_transcriptions)
        /\ p_local = <<>>
        /\ p_interleaved = <<>>
        /\ "transcript" \notin p_wrote
        /\ ~p_llm.called
    /\ p_pc = "save" =>
        /\ Len(p_interleaved) = SumOver([i \in 1..Len(p_transcriptions) |->
                                            Len(p_transcriptions[i].v)], 1..Len(p_transcriptions))
        /\ "transcript" \notin p_wrote
        /\ ~p_llm.called
    /\ (p_llm.called /\ (p_asr # {} \/ "transcript" \in p_wrote)) =>
        /\ p_pc \in {"notes", "write", "done", "raised"}
        /\ "transcript" \in p_wrote
        /\ Len(p_llm.input.lines) = Len(p_interleaved) + 1
        /\ p_llm.input = p_transcript[TranscriptName(p_start)]
        /\ TranscriptName(p_start) \in p_complete

\* A run transcribed two speakers, interleaved four segments, wrote the
\* transcript and called the summarizer on it.
C24_Witness ==
    /\ p_pc = "write"
    /\ Cardinality(p_asr) = 2
    /\ Len(p_interleaved) = 4
    /\ p_llm.called
    /\ Len(p_llm.input.lines) = 5

RawCount(d) == SumOver([i \in 1..Len(d) |-> Len(d[i].v)], 1..Len(d))

BlankCount(d) ==
    SumOver([i \in 1..Len(d) |->
                Cardinality({j \in 1..Len(d[i].v) : Strip(d[i].v[j].segment) = <<>>})],
            1..Len(d))

\* The segments of a list, and the segment lines of a file, without text.
EmptyTexts(segs) == Cardinality({i \in 1..Len(segs) : segs[i].text = <<>>})

EmptyLines(lines) ==
    Cardinality({i \in 2..Len(lines) : lines[i][Len(lines[i])] = ") "})

\* C26: a segment whose text is empty after trimming is kept from end to
\* end: the map the adapter returns, the interleaved list and the transcript
\* file each hold as many segments as the recognition model returned over all
\* speakers, and as many with an empty text as it returned with a blank one.
C26_EmptySegmentsKept ==
    /\ p_pc = "interleave" =>
        /\ RawCount(p_transcriptions) = RawCount(p_raw)
        /\ SumOver([i \in 1..Len(p_transcriptions) |-> EmptyTexts(p_transcriptions[i].v)],
                   1..Len(p_transcriptions)) = BlankCount(p_raw)
    /\ p_pc = "save" =>
        /\ Len(p_interleaved) = RawCount(p_raw)
        /\ EmptyTexts(p_interleaved) = BlankCount(p_raw)
    /\ (p_pc \in {"notes", "write", "done"} /\ "transcript" \in p_wrote) =>
        LET lines == p_transcript[TranscriptName(p_start)].lines
        IN /\ Len(lines) = 1 + RawCount(p_raw)
           /\ EmptyLines(lines) = BlankCount(p_raw)

\* A transcript was written for two speakers, one of whom the model heard say
\* nothing but a blank: three segment lines, one of them without text.
C26_Witness ==
    /\ p_pc = "done"
    /\ "transcript" \in p_wrote
    /\ Len(p_raw) = 2
    /\ RawCount(p_raw) = 3
    /\ BlankCount(p_raw) = 1
    /\ EmptyLines(p_transcript[TranscriptName(p_start)].lines) = 1

(***************************************************************************)
(* Claims about device memory.                                             *)
(***************************************************************************)
\* C27: however transcribe_audio_multi is left after the models were loaded,
\* by its return or by an error raised while a speaker file is checked or
\* transcribed, it holds no model any more and the device cache has been
\* cleared.
C27_ModelsReleasedOnEveryExit ==
    t_pc \in {"returned", "raised"} =>
        /\ t_models = {}
        /\ t_cache_cleared

(***************************************************************************)
(* Claims about the grouping of part files.                                *)
(***************************************************************************)
\* The files that a run's grouping holds for a speaker: the input of the
\* speaker's concatenation.
GroupedParts(sp) ==
    UNION {{wav_dict[i].v[j].v : j \in 1..Len(wav_dict[i].v)} :
                i \in {i \in 1..Len(wav_dict) : wav_dict[i].k = sp}}

\* C28: when a run on well-named files returns, every file of the listing is
\* the path returned for its speaker, or its speaker is mapped to the combined
\* path and the file is among the parts grouped for that speaker, and in every
\* list this run handed to the joiner for that speaker.
C28_NoPartDropped ==
    (c_pc = "returned" /\ \A f \in Input : WellNamed(f)) =>
        \A f \in Input :
            /\ SpeakerOf(f) \in DictKeys(c_result)
            /\ \/ DictGet(c_result, SpeakerOf(f)) = OriginalPath(f)
               \/ /\ IsCombinedPath(DictGet(c_result, SpeakerOf(f)))
                  /\ f \in GroupedParts(SpeakerOf(f))
                  /\ \A i \in 1..Len(joins) :
                        SpeakerOf(joins[i][1]) = SpeakerOf(f) => f \in Elems(joins[i])

(***************************************************************************)
(* Claims about the order of the transcript's lines.                       *)
(***************************************************************************)
\* The second of the day that a segment line shows as its start: the
\* "HH:MM:SS" behind the opening bracket.
ShownStart(line) ==
    NumberAt(line, 2, 3) * 3600 + NumberAt(line, 5, 6) * 60 + NumberAt(line, 8, 9)

AnchoredAndSorted(segs) ==
    /\ \A i \in 1..Len(segs) : segs[i].start.kind = "dt"
    /\ \A i \in 1..(Len(segs) - 1) : segs[i].start.t <= segs[i + 1].start.t

\* C29: when a list of anchored segments sorted by start has been written,
\* the start shown on each segment line is not before the start shown on the
\* line above it, also when the segments run past midnight.
C29_ShownStartsAscend ==
    (s_pc = "returned" /\ AnchoredAndSorted(s_segments)) =>
        \A i \in 2..(Len(s_target.lines) - 1) :
            ShownStart(s_target.lines[i]) <= ShownStart(s_target.lines[i + 1])

(***************************************************************************)
(* Claims about the files of the notes phase.                              *)
(***************************************************************************)
\* C30: a call of the notes adapter that ends in an error, for the token
\* ceiling, for a failed call of the language model or for an answer without
\* a document, has written no file.
C30_ErrorWritesNothing ==
    n_pc = "raised" => n_wrote = {}

=============================================================================
